---- MODULE Spec2Model ----
(***************************************************************************)
(* A model of the drake front end: the persistent backtracking parser of   *)
(* drake/parser.py (character level, with Parser objects kept on a heap so *)
(* that in-place assignments to a Parser are visible), and the scope chain *)
(* and structural types of drake/scopes.py and drake/types.py.             *)
(***************************************************************************)
EXTENDS Integers, Sequences, FiniteSets, TLC

VARIABLES
    source,     \* Parser.source: the text shared by every Parser object
    objs,       \* the Parser objects the caller holds, by identity (1..Len)
    last,       \* the last parser call: operation, receiver, outcome
    before,     \* objs as it was when the last parser call started
    scopes,     \* the Scope objects, by identity; 1 is the builtins root
    bindings,   \* the Binding objects, by identity
    slast,      \* the last scope call: operation, arguments, outcome
    sbefore,    \* scopes and bindings when the last scope call started
    tlast,      \* the last typecheck call: arguments and outcome
    values,     \* the value table handed to analyse
    alast       \* the last analyse call: node, outcome, and values before it

pvars == <<source, objs, last, before>>
svars == <<scopes, bindings, slast, sbefore>>
tvars == <<tlast>>
avars == <<values, alast>>
vars  == <<source, objs, last, before, scopes, bindings, slast, sbefore, tlast,
           values, alast>>

Max(a, b) == IF a > b THEN a ELSE b
Min(a, b) == IF a < b THEN a ELSE b

(***************************************************************************)
(* Values on Parser.parsed.  Python strings, None, booleans, lists and     *)
(* parse-tree nodes all live on the stack; they are modelled by one record *)
(* shape so that any two of them can be compared.  ParseNode.location has  *)
(* compare=False and is left out.                                          *)
(***************************************************************************)
Nd(tag, text, kids) == [tag |-> tag, text |-> text, kids |-> kids]
Str(s)   == Nd("str", s, <<>>)
None     == Nd("None", "", <<>>)
True     == Nd("bool", "True", <<>>)
False    == Nd("bool", "False", <<>>)
List(items) == Nd("list", "", items)

\* Number of constructor arguments each node class accepts: <<least, most>>.
NodeFields ==
    [IdentifierNode |-> <<1, 1>>, StringNode |-> <<1, 1>>, NumberNode |-> <<1, 1>>,
     BooleanNode |-> <<1, 1>>, NoneNode |-> <<0, 0>>, RangeNode |-> <<1, 3>>,
     ListNode |-> <<1, 1>>, TupleNode |-> <<1, 1>>, PairNode |-> <<2, 2>>,
     MappingNode |-> <<1, 1>>, BlockNode |-> <<1, 1>>, SubscriptNode |-> <<2, 2>>,
     LookupNode |-> <<2, 2>>, CallNode |-> <<3, 3>>, UnaryOpNode |-> <<2, 2>>,
     BinaryOpNode |-> <<3, 3>>, LambdaNode |-> <<3, 3>>, IterNode |-> <<1, 1>>,
     DoNode |-> <<1, 1>>, ObjectNode |-> <<1, 1>>, EnumNode |-> <<2, 2>>,
     ModuleNode |-> <<1, 1>>, ExceptionNode |-> <<1, 1>>, MutableNode |-> <<1, 1>>,
     ThrowNode |-> <<1, 1>>, ReturnNode |-> <<1, 1>>, YieldNode |-> <<1, 1>>,
     YieldFromNode |-> <<1, 1>>, BreakNode |-> <<0, 0>>, ContinueNode |-> <<0, 0>>,
     PassNode |-> <<0, 0>>, IfNode |-> <<3, 3>>, CaseNode |-> <<3, 3>>,
     CatchNode |-> <<3, 3>>, TryNode |-> <<3, 3>>, ForNode |-> <<3, 3>>,
     WhileNode |-> <<2, 2>>, TargetNode |-> <<3, 3>>, AssignmentNode |-> <<3, 3>>,
     TypeNode |-> <<1, 2>>, DeclarationNode |-> <<3, 3>>]

\* The defaults a dataclass fills in for trailing fields left out.
NodeDefaults(cls, n) ==
    IF cls = "RangeNode" THEN SubSeq(<<None, None>>, n, 2)
    ELSE IF cls = "TypeNode" /\ n = 1 THEN <<List(<<>>)>>
    ELSE <<>>

\* nodeclass(*args): the node, or "TypeError" when the argument count is
\* not one the class accepts.  List is the helper of parser.py:107.
CanConstruct(cls, args) ==
    \/ cls = "List"
    \/ /\ Len(args) >= NodeFields[cls][1]
       /\ Len(args) <= NodeFields[cls][2]

Construct(cls, args) ==
    IF cls = "List" THEN List(args)
    ELSE Nd(cls, "", args \o NodeDefaults(cls, Len(args)))

(***************************************************************************)
(* Characters of the source and the token patterns of parser.py:6-16.      *)
(* Positions are 0-based as in Python; Ch(i) is "" at and after the end.   *)
(* Each XxxEnd(i) is pattern.match(source, i).end(), or -1 for no match.   *)
(***************************************************************************)
Ch(i) == IF i >= 0 /\ i < Len(source) THEN SubSeq(source, i + 1, i + 1) ELSE ""
Slice(i, j) == IF j > i THEN SubSeq(source, i + 1, j) ELSE ""

Lower == {"a","b","c","d","e","f","g","h","i","j","k","l","m",
          "n","o","p","q","r","s","t","u","v","w","x","y","z"}
Upper == {"A","B","C","D","E","F","G","H","I","J","K","L","M",
          "N","O","P","Q","R","S","T","U","V","W","X","Y","Z"}
DecDigit == {"0","1","2","3","4","5","6","7","8","9"}
BinDigit == {"0","1"}
OctDigit == {"0","1","2","3","4","5","6","7"}
HexDigit == DecDigit \cup {"a","b","c","d","e","f","A","B","C","D","E","F"}
WordChar == Lower \cup Upper \cup DecDigit \cup {"_"}
BlankChar == {" ", "\t", "\f"}

RECURSIVE WhitespaceEnd(_)
WhitespaceEnd(i) == IF Ch(i) \in BlankChar THEN WhitespaceEnd(i + 1) ELSE i

RECURSIVE LineEnd(_)
LineEnd(i) == IF Ch(i) = "" \/ Ch(i) = "\n" THEN i ELSE LineEnd(i + 1)

CommentEnd(i) == IF Ch(i) = "/" /\ Ch(i + 1) = "/" THEN LineEnd(i + 2) ELSE i

NewlineEnd(i) ==
    IF Ch(i) = "\r" THEN (IF Ch(i + 1) = "\n" THEN i + 2 ELSE i + 1)
    ELSE IF Ch(i) = "\n" THEN i + 1
    ELSE -1

EofEnd(i) == IF i = Len(source) THEN i ELSE -1

RECURSIVE WordEnd(_)
WordEnd(i) == IF Ch(i) \in WordChar THEN WordEnd(i + 1) ELSE i

\* [!?]? from position j
MarkEnd(j) == IF Ch(j) \in {"!", "?"} THEN j + 1 ELSE j

IdentifierEnd(i) ==
    IF Ch(i) \in (Lower \cup Upper \cup {"_"}) THEN MarkEnd(WordEnd(i + 1)) ELSE -1

\* The body of a string literal, from position i up to the closing quote q.
RECURSIVE StringBodyEnd(_, _)
StringBodyEnd(i, q) ==
    IF Ch(i) = q THEN i + 1
    ELSE IF Ch(i) = "" \/ Ch(i) = "\n" THEN -1
    ELSE IF Ch(i) = "\\"
         THEN (IF Ch(i + 1) = "" \/ Ch(i + 1) = "\n" THEN -1
               ELSE StringBodyEnd(i + 2, q))
    ELSE StringBodyEnd(i + 1, q)

StringEnd(i) ==
    IF Ch(i) = "'" THEN StringBodyEnd(i + 1, "'")
    ELSE IF Ch(i) = "\"" THEN StringBodyEnd(i + 1, "\"")
    ELSE -1

\* (?:_?[digits])* from position i.
RECURSIVE DigitsEnd(_, _)
DigitsEnd(i, digits) ==
    IF Ch(i) \in digits THEN DigitsEnd(i + 1, digits)
    ELSE IF Ch(i) = "_" /\ Ch(i + 1) \in digits THEN DigitsEnd(i + 2, digits)
    ELSE i

\* (?:_?[digits])+ : the group has to match at least once
SomeDigits(i, j) == IF j > i THEN j ELSE -1

PrefixedEnd(i, letter, digits) ==
    IF Ch(i) = "0" /\ Ch(i + 1) = letter
    THEN SomeDigits(i + 2, DigitsEnd(i + 2, digits))
    ELSE -1

\* (?:\.[0-9](?:_?[0-9])*)? from position a
FractionEnd(a) ==
    IF Ch(a) = "." /\ Ch(a + 1) \in DecDigit THEN DigitsEnd(a + 2, DecDigit) ELSE a

\* [+-]? from position s
SignEnd(s) == IF Ch(s) \in {"+", "-"} THEN s + 1 ELSE s

\* (?:[eE][+-]?[0-9](?:_?[0-9])*)? from position b
ExponentEnd(b) ==
    IF Ch(b) \in {"e", "E"} /\ Ch(SignEnd(b + 1)) \in DecDigit
    THEN DigitsEnd(SignEnd(b + 1) + 1, DecDigit)
    ELSE b

\* [jJ]? from position c
ImaginaryEnd(c) == IF Ch(c) \in {"j", "J"} THEN c + 1 ELSE c

DecimalEnd(i) ==
    IF Ch(i) \notin DecDigit THEN -1
    ELSE ImaginaryEnd(ExponentEnd(FractionEnd(DigitsEnd(i + 1, DecDigit))))

\* A pattern handed to match: a literal string or one of the compiled ones.
Lit(s) == [kind |-> "lit", s |-> s]
Re(name) == [kind |-> "re", s |-> name]

LiteralEnd(i, s) == IF Slice(i, Min(i + Len(s), Len(source))) = s THEN i + Len(s) ELSE -1

MatchEnd(pattern, i) ==
    IF pattern.kind = "lit" THEN LiteralEnd(i, pattern.s)
    ELSE CASE pattern.s = "WHITESPACE"  -> WhitespaceEnd(i)
           [] pattern.s = "COMMENT"     -> CommentEnd(i)
           [] pattern.s = "NEWLINE"     -> NewlineEnd(i)
           [] pattern.s = "EOF"         -> EofEnd(i)
           [] pattern.s = "IDENTIFIER"  -> IdentifierEnd(i)
           [] pattern.s = "STRING"      -> StringEnd(i)
           [] pattern.s = "BINARY"      -> PrefixedEnd(i, "b", BinDigit)
           [] pattern.s = "OCTAL"       -> PrefixedEnd(i, "o", OctDigit)
           [] pattern.s = "HEXADECIMAL" -> PrefixedEnd(i, "x", HexDigit)
           [] pattern.s = "DECIMAL"     -> DecimalEnd(i)

AUGMENTED_ASSIGNMENT == <<"|=", "^=", "&=", "<<=", ">>=", "+=", "-=", "*=", "/=", "%=", "**=">>

\* parser.py:19-57.  'flags' 'for' on adjacent lines is one string.
RESERVED ==
    {"and", "as", "break", "case", "catch", "const", "continue", "do", "else",
     "enum", "exception", "false", "finally", "flagsfor", "from", "if", "in",
     "is", "iter", "module", "mutable", "none", "nonlocal", "not", "object",
     "or", "pass", "return", "self", "then", "throw", "true", "try", "while",
     "xor", "yield"}

(***************************************************************************)
(* Outcomes of a parser call.  A call is evaluated against a heap h of     *)
(* Parser objects and yields the heap it leaves behind together with the   *)
(* object returned (st = "ok") or the exception raised.  ParserError       *)
(* stores the location 1-based (parser.py:63-72).                          *)
(***************************************************************************)
OkR(h, p) == [st |-> "ok", h |-> h, p |-> p, pat |-> "", loc |-> <<0, 0>>]

ParseFailed(h, pattern, loc) ==
    [st |-> "ParseFailed", h |-> h, p |-> 0, pat |-> pattern,
     loc |-> <<loc[1] + 1, loc[2] + 1>>]

Raise(h, kind) == [st |-> kind, h |-> h, p |-> 0, pat |-> "", loc |-> <<0, 0>>]

Ok(r) == r.st = "ok"
Failed(r) == r.st = "ParseFailed"

location(h, p) == <<h[p].linenum, h[p].column>>

\* Parser(parser.source, cursor, linenum, column, parsed): a new object.
\* The fields not overridden are taken from the object p by the caller.
\* _with writing the fields into the object p itself instead of constructing
\* a Parser: the shared-cursor parser the persistent one replaces
with_InPlace(h, p, fields) == OkR([h EXCEPT ![p] = fields], p)

with_(h, p, fields) == OkR(Append(h, fields), Len(h) + 1)

addparsed(h, p, items) == with_(h, p, [h[p] EXCEPT !.parsed = @ \o items])

\* fromparsed = -1 stands for None.  parsed[:-k] and parsed[-k:] are
\* Python slices: for k = 0 they are () and the whole tuple.
KeepSlice(parsed, k) ==
    IF k = 0 THEN <<>> ELSE SubSeq(parsed, 1, Max(Len(parsed) - k, 0))
PopSlice(parsed, k) ==
    IF k = 0 THEN parsed ELSE SubSeq(parsed, Max(Len(parsed) - k, 0) + 1, Len(parsed))

withnode(h, p, nodeclass, args, fromparsed) ==
    LET parsed == h[p].parsed
        h1 == IF fromparsed # -1
              THEN [h EXCEPT ![p].parsed = KeepSlice(parsed, fromparsed)]
              ELSE h
        args1 == IF fromparsed # -1 THEN args \o PopSlice(parsed, fromparsed) ELSE args
    IN  IF CanConstruct(nodeclass, args1)
        THEN addparsed(h1, p, <<Construct(nodeclass, args1)>>)
        ELSE Raise(h1, "TypeError")

\* parser._with(cursor=cursor, column=column) for a match ending at cursor
Moved(h, p, cursor) ==
    with_(h, p, [h[p] EXCEPT !.cursor = cursor, !.column = @ + (cursor - h[p].cursor)])

\* r.addparsed(*items) on the object a call returned
AddParsedTo(r, items) == addparsed(r.h, r.p, items)

\* raw_match once pattern.match has answered: cursor is match.end(), or -1
\* when match is None
Matched(h, p, text, parse, cursor) ==
    IF cursor = -1 THEN ParseFailed(h, text, location(h, p))
    ELSE IF parse
         THEN AddParsedTo(Moved(h, p, cursor), <<Str(Slice(h[p].cursor, cursor))>>)
    ELSE Moved(h, p, cursor)

raw_match(h, p, pattern, text, parse) ==
    Matched(h, p, text, parse, MatchEnd(pattern, h[p].cursor))

\* r.raw_match(...) on the object a call returned; an exception goes on
RawMatchOn(r, pattern, text, parse) ==
    IF Ok(r) THEN raw_match(r.h, r.p, pattern, text, parse) ELSE r

skip(h, p) ==
    RawMatchOn(raw_match(h, p, Re("WHITESPACE"), "whitespace", FALSE),
               Re("COMMENT"), "comment", FALSE)

\* r.skip() on the object a call returned
SkipOn(r) == IF Ok(r) THEN skip(r.h, r.p) ELSE r

\* repr of a literal pattern, the default text of its ParseFailed.
Repr(s) == "'" \o s \o "'"

\* text or repr(pattern) for a str pattern
TextOf(pattern, text) ==
    IF pattern.kind = "lit" /\ text = "" THEN Repr(pattern.s) ELSE text

match(h, p, pattern, text, parse) ==
    SkipOn(raw_match(h, p, pattern, TextOf(pattern, text), parse))

\* r._with(linenum=linenum, column=0) on the object a call returned
NextLine(r, linenum) ==
    IF Ok(r) THEN with_(r.h, r.p, [r.h[r.p] EXCEPT !.linenum = linenum, !.column = 0])
    ELSE r

\* with OPTIONAL: parser = parser.newline()  where inner is the outcome of
\* the inner call: its ParseFailed is suppressed and parser stays r.p
Suppress(r, inner) == IF Failed(inner) THEN OkR(inner.h, r.p) ELSE inner

RECURSIVE newline(_, _)
NewlineAgain(r) == IF Ok(r) THEN Suppress(r, newline(r.h, r.p)) ELSE r

newline(h, p) ==
    NewlineAgain(SkipOn(NextLine(raw_match(h, p, Re("NEWLINE"), "newline", FALSE),
                                 h[p].linenum + 1)))

\* The positional arguments of choices: a pattern, or (pattern, text).
Tok(s) == [pat |-> Lit(s), text |-> ""]
TokRe(name, text) == [pat |-> Re(name), text |-> text]
Toks(ss) == [i \in 1..Len(ss) |-> Tok(ss[i])]
\* choices(*operators) with operators a str: one argument per character.
Star(s) == [i \in 1..Len(s) |-> Tok(SubSeq(s, i, i))]


\* for token in tokens: try: return parser.match(token, text, parse=parse)
\*                      except ParseFailed as e: exception = e
\* raise exception
RECURSIVE choicesFrom(_, _, _, _, _, _)
\* the except clause for token i, r being the outcome of its match
ChoicesExcept(h, p, tokens, parse, i, r) ==
    IF Failed(r) THEN choicesFrom(h, p, tokens, parse, i + 1, r) ELSE r

choicesFrom(h, p, tokens, parse, i, exception) ==
    IF i > Len(tokens) THEN exception
    ELSE ChoicesExcept(h, p, tokens, parse, i,
                       match(h, p, tokens[i].pat, tokens[i].text, parse))

choices(h, p, tokens, parse) ==
    choicesFrom(h, p, tokens, parse, 1, Raise(h, "ValueError"))

(***************************************************************************)
(* The grammar rules of Parser, statement by statement.  A rule is the     *)
(* sequence of its statements; a statement  dst = src.a().b()  is Set with *)
(* the chain of calls <<a, b>>, and each call of a chain is made on the    *)
(* object the call before it returned.  The local variables of a rule are  *)
(* parser, parser_ (written _parser in some rules), num, op, identifier    *)
(* and the arguments item, operators and forcelist of the generic rules.   *)
(* The location= arguments only set ParseNode.location and are left out.   *)
(***************************************************************************)
\* the calls of a chain
Match(s)  == [e |-> "match", pattern |-> Lit(s), text |-> "", parse |-> FALSE]
MatchP(s) == [e |-> "match", pattern |-> Lit(s), text |-> "", parse |-> TRUE]
MatchRe(name, text) == [e |-> "match", pattern |-> Re(name), text |-> text, parse |-> TRUE]
RawMatch(name, text) == [e |-> "raw_match", pattern |-> Re(name), text |-> text, parse |-> FALSE]
Choices(tokens) == [e |-> "choices", tokens |-> tokens]
ChoicesOperators == [e |-> "choices*operators"]
Newline == [e |-> "newline"]
AddParsed(items) == [e |-> "addparsed", items |-> items]
\* .withnode(nodeclass, fromparsed=k), fromparsed=num, and with one
\* positional argument taken from the local variable var
WithNode(nodeclass, k) == [e |-> "withnode", nodeclass |-> nodeclass, var |-> "", k |-> k]
\* .withnode(nodeclass, fromparsed=1) where the source counts the items
WithNodeLast(nodeclass) == [e |-> "withnode", nodeclass |-> nodeclass, var |-> "", k |-> 1]
WithNodeNum(nodeclass) == [e |-> "withnode", nodeclass |-> nodeclass, var |-> "", k |-> -2]
WithNodeVar(nodeclass, var, k) == [e |-> "withnode", nodeclass |-> nodeclass, var |-> var, k |-> k]
\* .rule(), item(...) / operand(...), and the generic rules with arguments;
\* an argument "item" or "operators" passes the caller's own argument on
Call(rule) == [e |-> "call", rule |-> rule, item |-> "", operators |-> <<>>, forcelist |-> FALSE]
CallItem == [e |-> "item"]
CallNodelist(item) == [e |-> "call", rule |-> "nodelist", item |-> item,
                       operators |-> <<>>, forcelist |-> FALSE]
CallDelimitedlist(item, forcelist) == [e |-> "call", rule |-> "delimitedlist", item |-> item,
                                       operators |-> <<>>, forcelist |-> forcelist]
CallLeftrecurse(operators, operand) == [e |-> "call", rule |-> "leftrecurse", item |-> operand,
                                        operators |-> operators, forcelist |-> FALSE]
CallRightrecurse(operators, operand) == [e |-> "call", rule |-> "rightrecurse", item |-> operand,
                                         operators |-> operators, forcelist |-> FALSE]
CallRecurse == [e |-> "recurse"]

\* the statements
Set(dst, src, chain) == [s |-> "set", dst |-> dst, src |-> src, chain |-> chain]
Return(src, chain) == [s |-> "return", src |-> src, chain |-> chain]
\* try: a  except ParseFailed: b
Try(a, b) == [s |-> "try", a |-> a, b |-> b]
\* with OPTIONAL: a
Optional(a) == [s |-> "try", a |-> a, b |-> <<>>]
\* while True: a
While(a) == [s |-> "while", a |-> a, b |-> <<>>]
If(cond, a, b) == [s |-> "if", cond |-> cond, a |-> a, b |-> b]
\* for item in items: try: return item(parser).chain
\*                    except ParseFailed as e: exception = e
\* raise exception
For(items, chain) == [s |-> "for", items |-> items, chain |-> chain]
\* a bare raise inside an except clause
ReRaise == [s |-> "raise"]
\* raise ParseFailed(pattern, location)
RaiseParseFailed(pattern) == [s |-> "fail", pattern |-> pattern]
Let(var, val) == [s |-> "let", var |-> var, val |-> val]
Inc == [s |-> "inc"]
\* identifier = IdentifierNode(_parser[-1].name)
LetIdentifier == [s |-> "identifier"]
\* obj = CallNode(obj, args): obj and args are not bound
Unbound == [s |-> "unbound"]

nodelist ==
    << Optional(<< Set("parser", "parser", <<Newline>>) >>),
       Set("parser", "parser", <<CallItem>>),
       Let("num", 1),
       Try(<< Try(<< While(<< Set("parser", "parser", <<Newline, CallItem>>),
                              Inc >>) >>,
                  << If("num == 1", <<ReRaise>>, <<>>) >>) >>,
           << Optional(<< While(<< Set("parser_", "parser", <<Match(",")>>),
                                   Optional(<< Set("parser_", "parser_", <<Newline>>) >>),
                                   Set("parser", "parser_", <<CallItem>>),
                                   Inc >>) >>),
              Optional(<< Set("parser", "parser", <<Match(",")>>) >>) >>),
       Optional(<< Set("parser", "parser", <<Newline>>) >>),
       Return("parser", <<WithNodeNum("List")>>) >>

delimitedlist ==
    << Try(<< Return("parser", <<Match("("), CallNodelist("item"), Match(")")>>) >>,
           << If("forcelist",
                 << Return("parser", <<CallItem, WithNode("List", 1)>>) >>,
                 << Return("parser", <<CallItem>>) >>) >>) >>

leftrecurse ==
    << Set("parser", "parser", <<CallItem>>),
       Optional(<< While(<< Set("parser", "parser",
                                <<ChoicesOperators, CallItem,
                                  WithNode("BinaryOpNode", 3)>>) >>) >>),
       Return("parser", <<>>) >>

rightrecurse ==
    << Set("parser", "parser", <<CallItem>>),
       Optional(<< Set("parser", "parser",
                       <<ChoicesOperators, CallRecurse,
                         WithNode("BinaryOpNode", 3)>>) >>),
       Return("parser", <<>>) >>

program ==
    << Return("parser", <<CallNodelist("expression"), RawMatch("EOF", "eof"),
                          WithNode("BlockNode", 1), WithNode("ModuleNode", 1)>>) >>

expression ==
    << For(<<"assignment", "keyword", "lambda_", "declaration", "boolor">>, <<>>) >>

assignment ==
    << Try(<< Return("parser", <<CallDelimitedlist("target", FALSE), Match("="),
                                 Call("expression"), WithNode("AssignmentNode", 2)>>) >>,
           << Set("parser_", "parser", <<Call("target")>>),
              LetIdentifier,
              Return("parser_", <<Choices(Toks(AUGMENTED_ASSIGNMENT)), Call("expression"),
                                  WithNodeVar("BinaryOpNode", "identifier", 2),
                                  WithNode("AssignmentNode", 2)>>) >>) >>

target ==
    << Try(<< Set("parser", "parser", <<Choices(Toks(<<"nonlocal", "const">>))>>) >>,
           << Set("parser", "parser", <<AddParsed(<<Str("")>>)>>) >>),
       Try(<< Set("parser", "parser", <<Call("typehint")>>) >>,
           << Set("parser", "parser", <<AddParsed(<<None>>)>>) >>),
       Return("parser", <<Call("identifier"), WithNode("TargetNode", 3)>>) >>

typehint ==
    << Return("parser", <<Match("<"), Call("type"), Match(">")>>) >>

type ==
    << Set("parser", "parser", <<Call("identifier"), WithNode("TypeNode", 1)>>),
       Optional(<< Set("parser", "parser",
                       <<Match("["), CallNodelist("type"), Match("]"),
                         WithNode("TypeNode", 2)>>) >>),
       Return("parser", <<>>) >>

keyword ==
    << For(<<"if_", "case", "try_", "for_", "while_", "iter", "do", "object_",
             "enum", "module", "exception", "mutable", "throw", "return_",
             "yield_", "yieldfrom", "break_", "continue_">>, <<>>) >>

if_ ==
    << Set("parser", "parser", <<Match("if"), Call("expression"), Match("then"),
                                 Call("expression")>>),
       Try(<< Set("parser", "parser", <<Match("else"), Call("expression")>>) >>,
           << Set("parser", "parser", <<AddParsed(<<None>>)>>) >>),
       Return("parser", <<WithNode("IfNode", 3)>>) >>

case ==
    << Set("parser", "parser", <<Match("case"), Call("expression"), Match("in"),
                                 Call("mapping")>>),
       Try(<< Set("parser", "parser", <<Match("else"), Call("expression")>>) >>,
           << Set("parser", "parser", <<AddParsed(<<None>>)>>) >>),
       Return("parser", <<WithNode("CaseNode", 3)>>) >>

try_ ==
    << Set("parser", "parser", <<Match("try"), Call("expression")>>),
       Try(<< Set("parser", "parser", <<AddParsed(<<List(<<>>)>>), Match("finally"),
                                        Call("expression")>>) >>,
           << Let("num", 0),
              Try(<< While(<< Set("parser_", "parser",
                                  <<Match("catch"), Call("identifier")>>),
                              Try(<< Set("parser_", "parser_",
                                         <<Match("as"), Call("identifier")>>) >>,
                                  << Set("parser_", "parser_",
                                         <<AddParsed(<<None>>)>>) >>),
                              Set("parser", "parser_",
                                  <<Call("expression"), WithNode("CatchNode", 3)>>),
                              Inc >>) >>,
                  << If("not num", <<ReRaise>>, <<>>) >>),
              Set("parser", "parser", <<WithNodeNum("List")>>),
              Try(<< Set("parser", "parser", <<Match("finally"), Call("expression")>>) >>,
                  << Set("parser", "parser", <<AddParsed(<<None>>)>>) >>) >>),
       Return("parser", <<WithNode("TryNode", 3)>>) >>

for_ ==
    << Return("parser", <<Match("for"), CallDelimitedlist("identifier", FALSE),
                          Match("in"), Call("expression"), Call("block"),
                          WithNode("ForNode", 3)>>) >>

while_ ==
    << Return("parser", <<Match("while"), Call("expression"), Call("block"),
                          WithNode("WhileNode", 2)>>) >>

iter ==
    << Set("parser", "parser", <<Match("iter")>>),
       For(<<"for_", "while_", "list">>, <<WithNode("IterNode", 1)>>) >>

do ==
    << Return("parser", <<Match("do"), Call("block"), WithNode("DoNode", 1)>>) >>

object_ ==
    << Return("parser", <<Match("object"), Call("block"), WithNode("ObjectNode", 1)>>) >>

enum ==
    << Set("parser", "parser", <<Match("enum")>>),
       Try(<< Set("parser", "parser", <<Match("flags"), AddParsed(<<True>>)>>) >>,
           << Set("parser", "parser", <<AddParsed(<<False>>)>>) >>),
       Return("parser", <<Match("{"), CallNodelist("enumitem"), Match("}"),
                          WithNode("EnumNode", 2)>>) >>

enumitem ==
    << Set("parser", "parser", <<Call("identifier")>>),
       Try(<< Set("parser", "parser", <<Match("="), Call("number")>>) >>,
           << Set("parser", "parser", <<AddParsed(<<None>>)>>) >>),
       Return("parser", <<WithNode("PairNode", 2)>>) >>

module ==
    << Return("parser", <<Match("module"), Call("block"), WithNode("ModuleNode", 1)>>) >>

exception ==
    << Return("parser", <<Match("exception"), Call("block"),
                          WithNode("ExceptionNode", 1)>>) >>

mutable ==
    << Set("parser", "parser", <<Match("mutable")>>),
       For(<<"object_", "mapping", "list", "tuple", "string">>,
           <<WithNode("MutableNode", 1)>>) >>

throw ==
    << Return("parser", <<Match("throw"), Call("expression"), WithNode("ThrowNode", 1)>>) >>

return_ ==
    << Return("parser", <<Match("return"), Call("expression"),
                          WithNode("ReturnNode", 1)>>) >>

yield_ ==
    << Return("parser", <<Match("yield"), Call("expression"), WithNode("YieldNode", 1)>>) >>

yieldfrom ==
    << Return("parser", <<Match("yield"), Match("from"), Call("expression"),
                          WithNode("YieldFromNode", 1)>>) >>

break_ ==
    << Return("parser", <<Match("break"), WithNode("BreakNode", -1)>>) >>

continue_ ==
    << Return("parser", <<Match("continue"), WithNode("ContinueNode", -1)>>) >>

pass_ ==
    << Return("parser", <<Match("pass"), WithNode("PassNode", -1)>>) >>

lambda_ ==
    << Return("parser", <<CallDelimitedlist("param", TRUE), Match("->"),
                          Call("expression"), WithNode("LambdaNode", 2)>>) >>

param ==
    << Set("parser", "parser", <<Call("typehint")>>),
       Try(<< Set("parser", "parser", <<Match("**")>>),
              Let("op", Str("**")) >>,
           << Try(<< Set("parser", "parser", <<Match("*")>>),
                     Let("op", Str("*")) >>,
                  << Let("op", None) >>) >>),
       Set("parser", "parser", <<Call("identifier"), WithNode("DeclarationNode", 2)>>),
       If("op",
          << Return("parser", <<WithNodeVar("UnaryOpNode", "op", 1)>>) >>,
          << Optional(<< Set("parser", "parser",
                             <<Match("="), Call("expression"),
                               WithNode("PairNode", 2)>>) >>),
             Return("parser", <<>>) >>) >>

declaration ==
    << Try(<< Set("parser", "parser", <<Match("const"), AddParsed(<<True>>)>>) >>,
           << Set("parser", "parser", <<AddParsed(<<False>>)>>) >>),
       Return("parser", <<Call("typehint"), Call("identifier"),
                          WithNode("DeclarationNode", 3)>>) >>

boolor  == << Return("parser", <<CallRightrecurse(Star("or"), "boolxor")>>) >>
boolxor == << Return("parser", <<CallRightrecurse(Star("xor"), "booland")>>) >>
booland == << Return("parser", <<CallRightrecurse(Star("and"), "inclusion")>>) >>

inclusion ==
    << Set("parser", "parser", <<Call("identity")>>),
       Optional(<< Try(<< Set("parser_", "parser",
                              <<Match("not"), Match("in"),
                                AddParsed(<<Str("not in")>>)>>) >>,
                       << Set("parser_", "parser", <<MatchP("in")>>) >>),
                   Set("parser", "parser_",
                       <<Call("inclusion"), WithNode("BinaryOpNode", 3)>>) >>),
       Return("parser", <<>>) >>

identity ==
    << Set("parser", "parser", <<Call("comparison")>>),
       Optional(<< Try(<< Set("parser_", "parser",
                              <<Match("is"), Match("not"),
                                AddParsed(<<Str("is not")>>)>>) >>,
                       << Set("parser_", "parser", <<MatchP("is")>>) >>),
                   Set("parser", "parser_",
                       <<Call("identity"), WithNode("BinaryOpNode", 3)>>) >>),
       Return("parser", <<>>) >>

comparison ==
    << Return("parser", <<CallRightrecurse(Toks(<<"<", "<=", ">", ">=", "==", "!=">>),
                                           "bitor")>>) >>
bitor    == << Return("parser", <<CallLeftrecurse(Star("|"), "bitxor")>>) >>
bitxor   == << Return("parser", <<CallLeftrecurse(Star("^"), "bitand")>>) >>
bitand   == << Return("parser", <<CallLeftrecurse(Star("&"), "shift")>>) >>
shift    == << Return("parser", <<CallLeftrecurse(Toks(<<"<<", ">>">>), "addition")>>) >>
addition == << Return("parser", <<CallLeftrecurse(Toks(<<"+", "-">>), "product")>>) >>
product  == << Return("parser", <<CallLeftrecurse(Toks(<<"*", "/">>), "modulus")>>) >>
modulus  == << Return("parser", <<CallLeftrecurse(Star("%"), "exponent")>>) >>
exponent == << Return("parser", <<CallRightrecurse(Star("**"), "unary")>>) >>

unary ==
    << Try(<< Return("parser", <<Choices(Toks(<<"not", "!", "-">>)), Call("unary"),
                                 WithNode("UnaryOpNode", 2)>>) >>,
           << Return("parser", <<Call("primary")>>) >>) >>

primary ==
    << Set("parser", "parser", <<Call("atom")>>),
       Optional(<< While(<<
           Try(<< Set("parser", "parser", <<Match("."), Call("identifier"),
                                            WithNode("LookupNode", 2)>>) >>,
               << Try(<< Set("parser", "parser",
                             <<Match("("), CallNodelist("arg"), Match(")"),
                               WithNode("CallNode", 2)>>),
                         Unbound >>,
                      << Try(<< Set("parser_", "parser", <<Call("range")>>) >>,
                             << Set("parser_", "parser", <<Call("list")>>) >>),
                         Set("parser", "parser_",
                             <<WithNode("SubscriptNode", 2)>>) >>) >>) >>) >>),
       Return("parser", <<>>) >>

arg ==
    << Try(<< Return("parser", <<Choices(Toks(<<"*", "**">>)), Call("expression"),
                                 WithNode("UnaryOpNode", 2)>>) >>,
           << Try(<< Return("parser", <<Call("identifier"), Match("="),
                                        Call("expression"), WithNode("PairNode", 2)>>) >>,
                  << Return("parser", <<Call("expression")>>) >>) >>) >>

atom ==
    << For(<<"mapping", "block", "list", "grouping", "tuple", "literal",
             "identifier">>, <<>>) >>

mapping ==
    << Return("parser", <<Match("{"), CallNodelist("pair"), Match("}"),
                          WithNode("MappingNode", 1)>>) >>

pair ==
    << Return("parser", <<Call("expression"), Match(":"), Call("expression"),
                          WithNode("PairNode", 2)>>) >>

block ==
    << Return("parser", <<Match("{"), CallNodelist("expression"), Match("}"),
                          WithNode("BlockNode", 1)>>) >>

list ==
    << Try(<< Return("parser", <<Match("["), Call("range"), Match("]"),
                                 WithNode("ListNode", 1)>>) >>,
           << Return("parser", <<Match("["), CallNodelist("expression"), Match("]"),
                                 WithNode("ListNode", 1)>>) >>) >>

range ==
    << Set("parser", "parser", <<Call("primary"), Match("..")>>),
       Try(<< Set("parser", "parser", <<Call("primary")>>) >>,
           << Set("parser", "parser", <<AddParsed(<<None>>)>>) >>),
       Try(<< Set("parser", "parser", <<Match(","), Call("primary")>>) >>,
           << Set("parser", "parser", <<AddParsed(<<None>>)>>) >>),
       Return("parser", <<WithNode("RangeNode", 3)>>) >>

grouping ==
    << Return("parser", <<Match("("), Call("expression"), Match(")")>>) >>

tuple ==
    << Return("parser", <<Match("("), CallNodelist("expression"), Match(")"),
                          WithNode("TupleNode", 1)>>) >>

literal ==
    << For(<<"string", "number", "boolean", "none">>, <<>>) >>

string ==
    << Return("parser", <<MatchRe("STRING", "string"), WithNode("StringNode", 1)>>) >>

number ==
    << Return("parser", <<Choices(<<TokRe("BINARY", "binary"), TokRe("OCTAL", "octal"),
                                    TokRe("HEXADECIMAL", "hexadecimal"),
                                    TokRe("DECIMAL", "decimal")>>),
                          WithNode("NumberNode", 1)>>) >>

boolean ==
    << Return("parser", <<Choices(Toks(<<"true", "false">>)), WithNode("BooleanNode", 1)>>) >>

none ==
    << Return("parser", <<Match("none"), WithNode("NoneNode", -1)>>) >>

identifier ==
    << Set("parser", "parser", <<MatchRe("IDENTIFIER", "identifier")>>),
       If("parser[-1] in RESERVED", <<RaiseParseFailed("identifier")>>, <<>>),
       Return("parser", <<WithNode("IdentifierNode", 1)>>) >>

\* Parser.<name>: the rules by name
Grammar ==
    [nodelist |-> nodelist, delimitedlist |-> delimitedlist,
     leftrecurse |-> leftrecurse, rightrecurse |-> rightrecurse,
     program |-> program, expression |-> expression, assignment |-> assignment,
     target |-> target, typehint |-> typehint, type |-> type, keyword |-> keyword,
     if_ |-> if_, case |-> case, try_ |-> try_, for_ |-> for_, while_ |-> while_,
     iter |-> iter, do |-> do, object_ |-> object_, enum |-> enum,
     enumitem |-> enumitem, module |-> module, exception |-> exception,
     mutable |-> mutable, throw |-> throw, return_ |-> return_, yield_ |-> yield_,
     yieldfrom |-> yieldfrom, break_ |-> break_, continue_ |-> continue_,
     pass_ |-> pass_, lambda_ |-> lambda_, param |-> param,
     declaration |-> declaration, boolor |-> boolor, boolxor |-> boolxor,
     booland |-> booland, inclusion |-> inclusion, identity |-> identity,
     comparison |-> comparison, bitor |-> bitor, bitxor |-> bitxor,
     bitand |-> bitand, shift |-> shift, addition |-> addition,
     product |-> product, modulus |-> modulus, exponent |-> exponent,
     unary |-> unary, primary |-> primary, arg |-> arg, atom |-> atom,
     mapping |-> mapping, pair |-> pair, block |-> block, list |-> list,
     range |-> range, grouping |-> grouping, tuple |-> tuple, literal |-> literal,
     string |-> string, number |-> number, boolean |-> boolean, none |-> none,
     identifier |-> identifier]

(***************************************************************************)
(* Running a rule.  The calls in progress form a stack of frames, one per  *)
(* method call, each with its local variables, the statement it is at      *)
(* (path: statement index, then alternately the part of a compound         *)
(* statement, 1 for its body and 2 for its except or else part, and the    *)
(* index inside it), the call of the chain it is at (ci) and the object    *)
(* the chain has reached (acc).  ParseFailed unwinds the frames up to the  *)
(* innermost try whose body is being run; any other exception is caught    *)
(* nowhere in parser.py and ends the run.  In the operators below code is  *)
(* the body of the rule the frame f is running.                            *)
(***************************************************************************)
Child(stmt, part) == IF part = 1 THEN stmt.a ELSE stmt.b

\* the block holding the statement at path, and the statement itself
RECURSIVE BlockAt(_, _)
BlockAt(code, path) ==
    IF Len(path) <= 1 THEN code
    ELSE BlockAt(Child(code[path[1]], path[2]), SubSeq(path, 3, Len(path)))

StmtAt(code, path) == BlockAt(code, path)[path[Len(path)]]

\* parser[-1]
LastParsed(h, p) == h[p].parsed[Len(h[p].parsed)]

\* an if statement that takes its first branch whatever the condition is
TruthAlways(cond, h, f) == TRUE

\* the conditions of the if statements
Truth(cond, h, f) ==
    CASE cond = "num == 1"  -> f.num = 1
      [] cond = "not num"   -> f.num = 0
      [] cond = "forcelist" -> f.forcelist
      [] cond = "op"        -> f.op # None
      [] cond = "parser[-1] in RESERVED" -> LastParsed(h, f.parser).text \in RESERVED

\* Enter: control reaches the statement at path; compound statements are
\* entered down to the first simple statement.  Advance: the statement at
\* path is done; control moves to the one after it, around a while loop, or
\* out of the compound statement it ends.
RECURSIVE Enter(_, _, _, _), Advance(_, _, _, _)
\* an if statement whose condition chose part
EnterPart(code, h, f, path, stmt, part) ==
    IF Len(Child(stmt, part)) = 0 THEN Advance(code, h, f, path)
    ELSE Enter(code, h, f, path \o <<part, 1>>)

EnterStmt(code, h, f, path, stmt) ==
    CASE stmt.s \in {"try", "while"} -> Enter(code, h, f, path \o <<1, 1>>)
      [] stmt.s = "if" ->
            EnterPart(code, h, f, path, stmt, IF Truth(stmt.cond, h, f) THEN 1 ELSE 2)
      [] stmt.s \in {"set", "return"} ->
            [f EXCEPT !.path = path, !.ci = 1, !.acc = f[stmt.src]]
      [] stmt.s = "for" ->
            [f EXCEPT !.path = path, !.ci = 1, !.acc = f.parser, !.i = 1]
      [] OTHER -> [f EXCEPT !.path = path]

Enter(code, h, f, path) == EnterStmt(code, h, f, path, StmtAt(code, path))

Advance(code, h, f, path) ==
    LET n == Len(path) IN
    IF path[n] < Len(BlockAt(code, path))
    THEN Enter(code, h, f, [path EXCEPT ![n] = @ + 1])
    ELSE IF n = 1 THEN [f EXCEPT !.path = <<>>]
    ELSE IF StmtAt(code, SubSeq(path, 1, n - 2)).s = "while"
         THEN Enter(code, h, f, [path EXCEPT ![n] = 1])
    ELSE Advance(code, h, f, SubSeq(path, 1, n - 2))

\* The innermost try statement whose body holds the statement at path:
\* the length of its path, 0 when there is none.
RECURSIVE Handler(_, _)
Handler(code, path) ==
    LET n == Len(path) IN
    IF n = 1 THEN 0
    ELSE IF path[n - 1] = 1 /\ StmtAt(code, SubSeq(path, 1, n - 2)).s = "try"
         THEN n - 2
    ELSE Handler(code, SubSeq(path, 1, n - 2))

NoFrame == [rule |-> ""]

\* The frame after ParseFailed was raised at the statement stmt of the
\* frame g, k being the handler found for it; NoFrame when nothing in the
\* frame catches it.  A for statement catches it and goes on with the next
\* item; after the last item the exception is raised again.
Caught(code, h, g, stmt, k) ==
    IF stmt.s = "for" /\ g.i < Len(stmt.items)
    THEN [g EXCEPT !.i = @ + 1, !.ci = 1, !.acc = g.parser]
    ELSE IF k = 0 THEN NoFrame
    ELSE IF Len(StmtAt(code, SubSeq(g.path, 1, k)).b) = 0
         THEN Advance(code, h, g, SubSeq(g.path, 1, k))
    ELSE Enter(code, h, g, SubSeq(g.path, 1, k) \o <<2, 1>>)

Catch(code, h, f, exc) ==
    Caught(code, h, [f EXCEPT !.exception = exc], StmtAt(code, f.path),
           Handler(code, f.path))

NewFrame(code, h, rule, p, item, operators, forcelist) ==
    Enter(code, h,
          [rule |-> rule, path |-> <<1>>, ci |-> 1, acc |-> p, parser |-> p,
           parser_ |-> 0, num |-> 0, op |-> None, identifier |-> None,
           item |-> item, operators |-> operators, forcelist |-> forcelist,
           location |-> location(h, p), i |-> 1,
           exception |-> [pat |-> "", loc |-> <<0, 0>>]], <<1>>)

\* the state of a run: st is "run", "raise" while ParseFailed (pat, loc) is
\* on its way to the caller's frame, and at the end "ok" with the object p
\* returned, or the exception that ended the run
Start(rule, h, p) ==
    [st |-> "run", h |-> h,
     fr |-> <<NewFrame(Grammar[rule], h, rule, p, "", <<>>, FALSE)>>,
     p |-> 0, pat |-> "", loc |-> <<0, 0>>]

Running(s) == s.st \in {"run", "raise"}

Stop(s, kind) == [s EXCEPT !.st = kind, !.fr = <<>>, !.pat = "", !.loc = <<0, 0>>]

Goto(s, f) == [s EXCEPT !.fr[Len(s.fr)] = f]

\* ParseFailed leaves the top frame unless g, what Catch made of it, is a frame
Thrown(s, exc, g) ==
    LET n == Len(s.fr) IN
    IF g.rule # "" THEN [s EXCEPT !.st = "run", !.fr[n] = g]
    ELSE [s EXCEPT !.st = IF n = 1 THEN "ParseFailed" ELSE "raise",
                   !.fr = SubSeq(@, 1, n - 1),
                   !.pat = exc.pat, !.loc = exc.loc]

Throw(code, s, exc) == Thrown(s, exc, Catch(code, s.h, s.fr[Len(s.fr)], exc))

ReturnTo(s, p) ==
    LET n == Len(s.fr) IN
    IF n = 1 THEN [s EXCEPT !.st = "ok", !.fr = <<>>, !.p = p, !.pat = "", !.loc = <<0, 0>>]
    ELSE [s EXCEPT !.fr = [SubSeq(@, 1, n - 1) EXCEPT ![n - 1].acc = p,
                                                      ![n - 1].ci = @ + 1]]

\* a call of a chain that is a basic method, made on the object f.acc
Primitive(el, h, f) ==
    CASE el.e = "match"     -> match(h, f.acc, el.pattern, el.text, el.parse)
      [] el.e = "raw_match" -> raw_match(h, f.acc, el.pattern, el.text, el.parse)
      [] el.e \in {"choices", "choices*operators"} ->
            choices(h, f.acc, IF el.e = "choices" THEN el.tokens ELSE f.operators, TRUE)
      [] el.e = "newline"   -> newline(h, f.acc)
      [] el.e = "addparsed" -> addparsed(h, f.acc, el.items)
      [] el.e = "withnode"  ->
            withnode(h, f.acc, el.nodeclass,
                     IF el.var = "" THEN <<>> ELSE <<f[el.var]>>,
                     IF el.k = -2 THEN f.num ELSE el.k)

\* a call of a chain that is a rule: the rule and the arguments it gets
Callable(el, f) ==
    CASE el.e = "call" ->
            [rule |-> el.rule, item |-> IF el.item = "item" THEN f.item ELSE el.item,
             operators |-> el.operators, forcelist |-> el.forcelist]
      [] el.e = "item" ->
            [rule |-> f.item, item |-> "", operators |-> <<>>, forcelist |-> FALSE]
      [] el.e = "recurse" ->
            [rule |-> "rightrecurse", item |-> f.item, operators |-> f.operators,
             forcelist |-> FALSE]

\* the frame of the call c made on the object p
Callee(c, h, p) ==
    NewFrame(Grammar[c.rule], h, c.rule, p, c.item, c.operators, c.forcelist)

\* the chain of a statement; the for statement calls its current item first
ChainOf(stmt, f) ==
    IF stmt.s = "for" THEN <<Call(stmt.items[f.i])>> \o stmt.chain ELSE stmt.chain

\* the run after a basic method gave the outcome r
Continue(code, s, f, r) ==
    IF Ok(r) THEN Goto([s EXCEPT !.h = r.h], [f EXCEPT !.acc = r.p, !.ci = @ + 1])
    ELSE IF Failed(r)
         THEN Throw(code, [s EXCEPT !.h = r.h], [pat |-> r.pat, loc |-> r.loc])
    ELSE Stop([s EXCEPT !.h = r.h], r.st)

\* the call el of a chain
ExecCall(code, s, f, el) ==
    IF el.e \in {"call", "item", "recurse"}
    THEN [s EXCEPT !.fr = Append(@, Callee(Callable(el, f), s.h, f.acc))]
    ELSE Continue(code, s, f, Primitive(el, s.h, f))

ExecChain(code, s, f, stmt) ==
    IF f.ci > Len(ChainOf(stmt, f))
    THEN IF stmt.s = "set"
         THEN Goto(s, Advance(code, s.h, [f EXCEPT ![stmt.dst] = f.acc], f.path))
         ELSE ReturnTo(s, f.acc)
    ELSE ExecCall(code, s, f, ChainOf(stmt, f)[f.ci])

\* the frame after a statement that only assigns to a local variable
Assigned(f, stmt, h) ==
    CASE stmt.s = "let" -> [f EXCEPT ![stmt.var] = stmt.val]
      [] stmt.s = "inc" -> [f EXCEPT !.num = @ + 1]
      [] stmt.s = "identifier" ->
            [f EXCEPT !.identifier =
                Construct("IdentifierNode", <<LastParsed(h, f.parser_).kids[3]>>)]

\* the exception a raise statement raises
Raised(f, stmt) ==
    IF stmt.s = "raise" THEN f.exception
    ELSE [pat |-> stmt.pattern, loc |-> <<f.location[1] + 1, f.location[2] + 1>>]

\* the statement stmt of the top frame f
ExecStmt(code, s, f, stmt) ==
    CASE stmt.s \in {"set", "return", "for"} -> ExecChain(code, s, f, stmt)
      [] stmt.s \in {"raise", "fail"} -> Throw(code, s, Raised(f, stmt))
      [] stmt.s \in {"let", "inc", "identifier"} ->
            Goto(s, Advance(code, s.h, Assigned(f, stmt, s.h), f.path))
      [] stmt.s = "unbound" -> Stop(s, "UnboundLocalError")

Exec(code, s, f) ==
    IF s.st = "raise" THEN Throw(code, s, [pat |-> s.pat, loc |-> s.loc])
    ELSE ExecStmt(code, s, f, StmtAt(code, f.path))

\* one step of the run
Step(s) == Exec(Grammar[s.fr[Len(s.fr)].rule], s, s.fr[Len(s.fr)])

\* Steps until the run ends, at most 2^k of them, in two halves.
RECURSIVE Run(_, _)
\* the second half, after the first led to m
Resume(m, k) == IF Running(m) THEN Run(m, k) ELSE m

Run(s, k) == IF k = 0 THEN Step(s) ELSE Resume(Run(s, k - 1), k - 1)

MaxSteps == 12   \* a run takes at most 2^MaxSteps steps

\* the outcome of a run that ended, as OkR, ParseFailed and Raise give it
Outcome(s) == [st |-> s.st, h |-> s.h, p |-> s.p, pat |-> s.pat, loc |-> s.loc]

\* rule(parser) on the object p of the heap h
Apply(rule, h, p) == Outcome(Run(Start(rule, h, p), MaxSteps))

\* rule(parser, item), rule(parser, item, forcelist) and
\* rule(parser, operators, operand): the generic rules called with arguments
StartWith(rule, item, operators, forcelist, h, p) ==
    [st |-> "run", h |-> h,
     fr |-> <<NewFrame(Grammar[rule], h, rule, p, item, operators, forcelist)>>,
     p |-> 0, pat |-> "", loc |-> <<0, 0>>]

ApplyWith(rule, item, operators, forcelist, h, p) ==
    Outcome(Run(StartWith(rule, item, operators, forcelist, h, p), MaxSteps))

(***************************************************************************)
(* Types of drake/types.py.  A Type is compared by name only; params is    *)
(* the tuple its subscripting sets.  mutable and namespace play no part in *)
(* typecheck and are left out.                                             *)
(***************************************************************************)
Type(name, params) == [name |-> name, params |-> params]
Number == Type("Number", <<>>)
List_  == Type("List", <<>>)
\* Type.__getitem__: t[item] and t[item1, item2, ...]
Subscript(t, params) == Type(t.name, params)

\* None, the value zip_longest fills the shorter tuple with
NoParam == Type("", <<>>)

Param(t, i) == IF i <= Len(t.params) THEN t.params[i] ELSE NoParam

\* typecheck(expected, actual): "ok" when it returns, else the exception it
\* raises.  expected.name of None raises AttributeError.
RECURSIVE typecheck(_, _), typecheckParams(_, _, _)
\* the loop body for pair i, r being the outcome of the recursive call
ParamChecked(expected, actual, i, r) ==
    IF r = "ok" THEN typecheckParams(expected, actual, i + 1) ELSE r

\* for expparam, actparam in zip_longest(...): from pair i on
typecheckParams(expected, actual, i) ==
    IF i > Max(Len(expected.params), Len(actual.params)) THEN "ok"
    ELSE ParamChecked(expected, actual, i,
                      typecheck(Param(expected, i), Param(actual, i)))

typecheck(expected, actual) ==
    IF expected = NoParam \/ actual = NoParam THEN "AttributeError"
    ELSE IF expected.name # actual.name THEN "TypeMismatch"
    ELSE typecheckParams(expected, actual, 1)

(***************************************************************************)
(* Scopes of drake/scopes.py.  A world w holds the Scope objects and the   *)
(* Binding objects by identity.  As written the module does not load       *)
(* (_MISSING is not defined, and builtins is read while it is being        *)
(* constructed); the model gives the behaviour of the methods with the     *)
(* root built as _Builtins() having no bindings and the parent None that   *)
(* `if self.parent:` tests for.  An element of Scope.bindings is a Binding *)
(* or, in a scope made by child(), the tuple of child's arguments.  The    *)
(* attribute assigned that rebind sets is <<>> while it is not set.        *)
(***************************************************************************)
World(sc, bd) == [scopes |-> sc, bindings |-> bd]

Ref(b) == [kind |-> "Binding", items |-> <<b>>]
TupleOf(bs) == [kind |-> "tuple", items |-> bs]

\* Binding(name, type, isassigned, const)
Binding(name, typ, isassigned, const) ==
    [name |-> name, type |-> typ, isassigned |-> isassigned, const |-> const,
     assigned |-> <<>>]

\* builtins = _Builtins()
Builtins == [class |-> "_Builtins", bindings |-> <<>>, parent |-> 0]
\* Scope.__init__ with no bindings; parent 1 is builtins
Scope(parent) == [class |-> "Scope", bindings |-> <<>>, parent |-> parent]

\* what a method returns (st = "ok", val) or raises (st); w is the world
\* it leaves
Result(st, w, val) == [st |-> st, w |-> w, val |-> val]
Found(st, val) == [st |-> st, val |-> val]

\* for index, binding in enumerate(self.bindings): from element i on;
\* NameNotFound stands for the loop running off its end
RECURSIVE Own(_, _, _, _)
Own(w, self, name, i) ==
    LET elems == w.scopes[self].bindings IN
    IF i > Len(elems) THEN Found("NameNotFound", <<>>)
    ELSE IF elems[i].kind = "tuple" THEN Found("AttributeError", <<>>)
    ELSE IF w.bindings[elems[i].items[1]].name = name THEN Found("ok", <<i - 1, 0>>)
    ELSE Own(w, self, name, i + 1)

\* if scope != -1: scope += 1
Lifted(r) ==
    IF r.st = "ok" /\ r.val[2] # -1 THEN Found("ok", <<r.val[1], r.val[2] + 1>>)
    ELSE r

\* _Builtins.index: return index, -1
Rooted(r) == IF r.st = "ok" THEN Found("ok", <<r.val[1], -1>>) ELSE r

\* Scope.index(self, name, local), local one of "None", "True", "False";
\* dot_index is obj.index(name, local) with the method the class of obj
\* has, local "-" standing for a call that passes name only
RECURSIVE index(_, _, _, _)
builtins_index(w, self, name) == Rooted(index(w, self, name, "None"))

dot_index(w, obj, name, local) ==
    IF w.scopes[obj].class = "_Builtins"
    THEN IF local = "-" THEN builtins_index(w, obj, name)
         ELSE Found("TypeError", <<>>)
    ELSE index(w, obj, name, IF local = "-" THEN "None" ELSE local)

\* the part of index after the loop over the own bindings ended with r
Outer(w, self, name, local, r) ==
    IF r.st # "NameNotFound" THEN r
    ELSE IF local # "True" /\ w.scopes[self].parent # 0
         THEN Lifted(dot_index(w, w.scopes[self].parent, name, "-"))
    ELSE Found("NameNotFound", <<>>)

index(w, self, name, local) ==
    Outer(w, self, name, local,
          IF local # "False" THEN Own(w, self, name, 1)
          ELSE Found("NameNotFound", <<>>))

\* Scope.__getitem__: the element, IndexError past the end
getitem(w, self, item) ==
    IF item < Len(w.scopes[self].bindings)
    THEN Found("ok", <<w.scopes[self].bindings[item + 1]>>)
    ELSE Found("IndexError", <<>>)

\* Scope.get(self, index, scope); 1 is builtins
RECURSIVE get(_, _, _, _)
get(w, self, i, scope) ==
    IF scope = -1 THEN getitem(w, 1, i)
    ELSE IF scope = 0 THEN getitem(w, self, i)
    ELSE IF w.scopes[self].parent = 0 THEN Found("AttributeError", <<>>)
    ELSE get(w, w.scopes[self].parent, i, scope - 1)

\* Binding.rebind once typecheck(self.type, type) has ended with checked
Rebound(w, b, assignment_, checked) ==
    IF checked # "ok" THEN Result(checked, w, <<>>)
    ELSE IF w.bindings[b].isassigned /\ assignment_ /\ w.bindings[b].const
         THEN Result("CannotRebindConstant", w, <<>>)
    ELSE Result("ok", [w EXCEPT !.bindings[b].assigned = <<assignment_>>], <<>>)

rebind(w, b, typ, assignment_) ==
    Rebound(w, b, assignment_, typecheck(w.bindings[b].type, typ))

\* return index, scope  after binding.rebind ended with r
Returned(r, val) == IF r.st = "ok" THEN Result("ok", r.w, val) ELSE r

\* bind once self.get(index, scope) has ended with g: binding.rebind
Fetched(w, typ, assignment_, val, g) ==
    IF g.st # "ok" THEN Result(g.st, w, <<>>)
    ELSE IF g.val[1].kind = "tuple" THEN Result("AttributeError", w, <<>>)
    ELSE Returned(rebind(w, g.val[1].items[1], typ, assignment_), val)

\* the new binding put in front of the others instead of appended
AppendedFirst(w, self, name, typ, assignment_, const) ==
    Result("ok",
           World([w.scopes EXCEPT ![self].bindings = <<Ref(Len(w.bindings) + 1)>> \o @],
                 Append(w.bindings, Binding(name, typ, assignment_, const))),
           <<Len(w.scopes[self].bindings), 0>>)

\* the except NameNotFound clause of bind, when local is not False
Appended(w, self, name, typ, assignment_, const) ==
    Result("ok",
           World([w.scopes EXCEPT ![self].bindings = Append(@, Ref(Len(w.bindings) + 1))],
                 Append(w.bindings, Binding(name, typ, assignment_, const))),
           <<Len(w.scopes[self].bindings), 0>>)

\* a bind that, unless local is False, creates the binding without looking
\* for one of that name
IndexedAnew(w, self, name, typ, assignment_, local, const, r) ==
    IF local # "False" THEN Appended(w, self, name, typ, assignment_, const)
    ELSE IF r.st = "ok"
         THEN Fetched(w, typ, assignment_, r.val, get(w, self, r.val[1], r.val[2]))
    ELSE Result(r.st, w, <<>>)

\* bind once self.index(name, local) has ended with r
Indexed(w, self, name, typ, assignment_, local, const, r) ==
    IF r.st = "ok"
    THEN Fetched(w, typ, assignment_, r.val, get(w, self, r.val[1], r.val[2]))
    ELSE IF r.st = "NameNotFound" /\ local # "False"
         THEN Appended(w, self, name, typ, assignment_, const)
    ELSE Result(r.st, w, <<>>)

bind(w, self, name, typ, assignment_, local, const) ==
    Indexed(w, self, name, typ, assignment_, local, const,
            dot_index(w, self, name, local))

\* Scope.child(self) with no arguments: Scope(bindings, parent=self), where
\* bindings is the empty tuple of arguments
child(w, self) ==
    Result("ok",
           World(Append(w.scopes, [class |-> "Scope", bindings |-> <<TupleOf(<<>>)>>,
                                   parent |-> self]),
                 w.bindings),
           <<Len(w.scopes) + 1>>)

(***************************************************************************)
(* The lowering pass of drake/analyser.py.  analyse(node, scope, values)   *)
(* walks a parse tree; scope is a Scope of the world w and values the      *)
(* shared value table, a list that the literal handlers append to.  The    *)
(* typed nodes it builds are carriers of a type and of what the handler    *)
(* hands them: the class, the type, an index and a scope depth (-2 where   *)
(* the class has none) and the child nodes.                                *)
(***************************************************************************)
String  == Type("String", <<>>)
Boolean == Type("Boolean", <<>>)
None_   == Type("None", <<>>)
Tuple   == Type("Tuple", <<>>)
Block   == Type("Block", <<>>)

\* types.strings, types.tuples, types.mappings, types.iterable: a Type is
\* in one of them when a member has its name (Type compares by name)
strings  == {"String", "MutableString"}
tuples   == {"Tuple", "MutableTuple"}
mappings == {"Mapping", "MutableMapping"}
iterable == strings \cup {"List", "MutableList"} \cup mappings \cup {"Iterator"}

Typed(cls, typ, i, depth, kids) ==
    [cls |-> cls, type |-> typ, index |-> i, depth |-> depth, kids |-> kids]

ValueNode(typ, i) == Typed("ValueNode", typ, i, -2, <<>>)
NoNode == Typed("", NoParam, -2, -2, <<>>)

\* what a handler returns (st = "ok", out) or raises (st), with the world
\* and the value table it leaves
Lowering(st, w, vals, out) == [st |-> st, w |-> w, vals |-> vals, out |-> out]

\* the fields of a parse-tree node, by position
Field(node, i) == node.kids[i]

\* normalise_string: string[1:-1]
normalise_string(str) == SubSeq(str, 2, Len(str) - 1)

\* normalise_number: int(number) in base 10 of a prefixed literal raises
\* ValueError; re.match is called without the string to match and raises
\* TypeError
normalise_number(num) ==
    IF Len(num) >= 2 /\ SubSeq(num, 1, 2) \in {"0b", "0o", "0x"}
    THEN Found("ValueError", <<>>)
    ELSE Found("TypeError", <<>>)

\* values.index(value), 0-based
RECURSIVE IndexIn(_, _, _)
IndexIn(vals, value, i) ==
    IF vals[i] = value THEN i - 1 ELSE IndexIn(vals, value, i + 1)

IsIn(vals, value) == \E i \in 1..Len(vals) : vals[i] = value

\* if value in values: index = values.index(value)
\* else: index = len(values); values.append(stored)
\* return ValueNode(typ, index)
Interned(w, vals, value, stored, typ) ==
    IF IsIn(vals, value)
    THEN Lowering("ok", w, vals, ValueNode(typ, IndexIn(vals, value, 1)))
    ELSE Lowering("ok", w, Append(vals, stored), ValueNode(typ, Len(vals)))

\* stringnode: looks for the normalised value, appends node.value
stringnode(node, w, vals) ==
    Interned(w, vals, Str(normalise_string(Field(node, 1).text)), Field(node, 1), String)

\* numbernode: normalise_number raises
numbernode(node, w, vals) ==
    Lowering(normalise_number(Field(node, 1).text).st, w, vals, NoNode)

\* booleannode: value = (node.value == 'true')
booleannode(node, w, vals) ==
    Interned(w, vals, IF Field(node, 1).text = "true" THEN True ELSE False,
             IF Field(node, 1).text = "true" THEN True ELSE False, Boolean)

nonenode(node, w, vals) == Interned(w, vals, None, None, None_)

\* passnode: PassNode(types.None_)
passnode(w, vals) == Lowering("ok", w, vals, Typed("PassNode", None_, -2, -2, <<>>))

\* identifiernode: scope.index(node.name), then scope.get(index, _scope).type
Got(w, vals, place, g) ==
    IF g.st # "ok" THEN Lowering(g.st, w, vals, NoNode)
    ELSE IF g.val[1].kind = "tuple" THEN Lowering("AttributeError", w, vals, NoNode)
    ELSE Lowering("ok", w, vals,
                  Typed("IdentifierNode", w.bindings[g.val[1].items[1]].type,
                        place[1], place[2], <<>>))

Placed(w, vals, scope, r) ==
    IF r.st # "ok" THEN Lowering(r.st, w, vals, NoNode)
    ELSE Got(w, vals, r.val, get(w, scope, r.val[1], r.val[2]))

identifiernode(node, w, vals, scope) ==
    Placed(w, vals, scope, dot_index(w, scope, Field(node, 1).text, "-"))

\* raise: the handler ends with the exception st, leaving w and vals
Raising(st, r) == Lowering(st, r.w, r.vals, NoNode)

\* unpack(vars, type): zip(vars, type.params), as the list of the types
unpack(vars_, typ) ==
    IF Len(vars_) = 0 THEN Found("ValueError", <<>>)
    ELSE IF typ.name \in tuples
         THEN IF Len(vars_) = Len(typ.params) THEN Found("ok", typ.params)
              ELSE Found("ValueError", <<>>)
    ELSE Found("TypeMismatch", <<>>)

\* for item in items: typecheck(type, item.type), from item i on
RECURSIVE CheckItems(_, _, _)
CheckItems(typ, items, i) ==
    IF i > Len(items) THEN "ok"
    ELSE IF typecheck(typ, items[i].type) # "ok" THEN typecheck(typ, items[i].type)
    ELSE CheckItems(typ, items, i + 1)

\* the loop of blocknode over the lowered expressions, from expression i on;
\* typ is NoParam while type is None
RECURSIVE YieldType(_, _, _)
YieldType(exprs, i, typ) ==
    IF i > Len(exprs) THEN Found("ok", <<IF typ = NoParam THEN None_ ELSE typ>>)
    ELSE IF exprs[i].cls \notin {"ReturnNode", "YieldNode", "YieldFromNode"}
         THEN YieldType(exprs, i + 1, typ)
    ELSE IF typ = NoParam THEN YieldType(exprs, i + 1, exprs[i].type)
    ELSE IF typecheck(typ, exprs[i].type) # "ok"
         THEN Found(typecheck(typ, exprs[i].type), <<>>)
    ELSE YieldType(exprs, i + 1, typ)

\* the type a container, or the operand of yield from, yields
Yielded(typ) ==
    IF typ.name \in strings THEN Found("ok", <<typ>>)
    ELSE IF typ.name \in mappings THEN Found("ok", <<Subscript(Tuple, typ.params)>>)
    ELSE IF typ.name \in iterable
         THEN IF Len(typ.params) = 1 THEN Found("ok", <<typ.params[1]>>)
              ELSE Found("ValueError", <<>>)
    ELSE Found("TypeMismatch", <<>>)

\* targetnode: reads node.type, an attribute that parsetree.TargetNode
\* (fields mode, typehint, name) does not have
targetnode(node) == Found("AttributeError", <<>>)

RECURSIVE analyse(_, _, _, _), analyseAll(_, _, _, _), blocknode(_, _, _, _)

\* items.append(analyse(item, scope, values)) once analyse has ended with a
Collected(r, a) ==
    IF a.st # "ok" THEN Lowering(a.st, a.w, a.vals, r.out)
    ELSE Lowering("ok", a.w, a.vals, Append(r.out, a.out))

\* [analyse(item, scope, values) for item in nodes], from item i on
analyseAll(nodes, i, scope, r) ==
    IF r.st # "ok" \/ i > Len(nodes) THEN r
    ELSE analyseAll(nodes, i + 1, scope,
                    Collected(r, analyse(nodes[i], r.w, r.vals, scope)))

\* scope = scope.child(); [analyse(item, scope, values) for item in nodes]
InChild(nodes, vals, c) ==
    analyseAll(nodes, 1, c.val[1], Lowering("ok", c.w, vals, <<>>))

\* listnode once the items are lowered
ListOf(r) ==
    IF r.st # "ok" THEN Raising(r.st, r)
    ELSE IF Len(r.out) = 0 THEN Raising("IndexError", r)
    ELSE IF CheckItems(r.out[1].type, r.out, 1) # "ok"
         THEN Raising(CheckItems(r.out[1].type, r.out, 1), r)
    ELSE Lowering("ok", r.w, r.vals,
                  Typed("ListNode", Subscript(List_, <<r.out[1].type>>), -2, -2, r.out))

listnode(node, w, vals, scope) == ListOf(InChild(Field(node, 1).kids, vals, child(w, scope)))

\* tuplenode once the items are lowered: types is rebound to a list before
\* types.Tuple is read
TupleOfItems(r) ==
    IF r.st # "ok" THEN Raising(r.st, r) ELSE Raising("AttributeError", r)

tuplenode(node, w, vals, scope) ==
    TupleOfItems(InChild(Field(node, 1).kids, vals, child(w, scope)))

\* blocknode once the expressions are lowered in the scope locals and the
\* loop over them has ended with y
BlockTyped(r, y, locals) ==
    IF y.st # "ok" THEN Raising(y.st, r)
    ELSE Lowering("ok", r.w, r.vals,
                  Typed("BlockNode", Subscript(Block, y.val), locals, -2, r.out))

BlockOf(r, locals) ==
    IF r.st # "ok" THEN Raising(r.st, r)
    ELSE BlockTyped(r, YieldType(r.out, 1, NoParam), locals)

BlockIn(nodes, vals, c) == BlockOf(InChild(nodes, vals, c), c.val[1])

blocknode(node, w, vals, scope) == BlockIn(Field(node, 1).kids, vals, child(w, scope))

\* returnnode, yieldnode: cls(expression.type, expression)
Carrying(cls, a) ==
    IF a.st # "ok" THEN a
    ELSE Lowering("ok", a.w, a.vals, Typed(cls, a.out.type, -2, -2, <<a.out>>))

\* yieldfromnode once the expression is lowered
YieldedFrom(a, y) ==
    IF y.st # "ok" THEN Raising(y.st, a)
    ELSE Lowering("ok", a.w, a.vals, Typed("YieldFromNode", y.val[1], -2, -2, <<a.out>>))

yieldfromnode(a) == IF a.st # "ok" THEN a ELSE YieldedFrom(a, Yielded(a.out.type))

\* ifnode once condition, then and default are lowered
IfOf(r) ==
    IF r.st # "ok" THEN Raising(r.st, r)
    ELSE IF r.out[3].cls # "PassNode" /\ typecheck(r.out[2].type, r.out[3].type) # "ok"
         THEN Raising(typecheck(r.out[2].type, r.out[3].type), r)
    ELSE Lowering("ok", r.w, r.vals, Typed("IfNode", r.out[2].type, -2, -2, r.out))

ifnode(node, w, vals, scope) == IfOf(InChild(node.kids, vals, child(w, scope)))

\* ForNode(*body.type.params, container, body)
Looped(b, head) ==
    IF b.st # "ok" THEN b
    ELSE Lowering("ok", b.w, b.vals,
                  Typed("ForNode", b.out.type.params[1], -2, -2, <<head, b.out>>))

\* whilenode once the condition is lowered in the child scope
WhileBody(node, scope, a) ==
    IF a.st # "ok" THEN a
    ELSE Looped(blocknode(Field(node, 2), a.w, a.vals, scope), a.out)

whilenode(node, w, vals, c) ==
    WhileBody(node, c.val[1], analyse(Field(node, 1), c.w, vals, c.val[1]))

\* for var, vartype in zip(vars, types): scope.bind(var.name, vartype, True),
\* from variable i on; b is the outcome of the binds made so far
RECURSIVE BindVars(_, _, _, _, _)
BindVars(vars_, typs, i, scope, b) ==
    IF b.st # "ok" \/ i > Len(vars_) THEN b
    ELSE BindVars(vars_, typs, i + 1, scope,
                  bind(b.w, scope, Field(vars_[i], 1).text, typs[i], TRUE, "True", FALSE))

\* fornode once the loop variables are bound in the child scope
ForBody(node, scope, a, b) ==
    IF b.st # "ok" THEN Lowering(b.st, b.w, a.vals, NoNode)
    ELSE Looped(blocknode(Field(node, 3), b.w, a.vals, scope), a.out)

\* the unpacking branch of fornode, u being what unpack gave
ForUnpacked(node, a, c, u) ==
    IF u.st # "ok" THEN Lowering(u.st, c.w, a.vals, NoNode)
    ELSE ForBody(node, c.val[1], a,
                 BindVars(Field(node, 1).kids, u.val, 1, c.val[1], Result("ok", c.w, <<>>)))

\* fornode from scope = scope.child() on, typ being the type the container
\* yields
ForVars(node, a, typ, c) ==
    IF Field(node, 1).tag # "list"
    THEN ForBody(node, c.val[1], a,
                 bind(c.w, c.val[1], Field(Field(node, 1), 1).text, typ, TRUE, "True", FALSE))
    ELSE ForUnpacked(node, a, c, unpack(Field(node, 1).kids, typ))

ForOver(node, scope, a, y) ==
    IF y.st # "ok" THEN Raising(y.st, a)
    ELSE ForVars(node, a, y.val[1], child(a.w, scope))

fornode(node, scope, a) ==
    IF a.st # "ok" THEN a ELSE ForOver(node, scope, a, Yielded(a.out.type))

\* the part of assignmentnode that follows targetnode for one target: the
\* type is the target's or, when that is None, the one given; then
\* scope.bind(name, type, True, local, const)
TargetBound(a, scope, t, typ) ==
    IF t.st # "ok" THEN Raising(t.st, a)
    ELSE IF t.val[2] # NoParam /\ typecheck(t.val[2], typ) # "ok"
         THEN Raising(typecheck(t.val[2], typ), a)
    ELSE Lowering(bind(a.w, scope, t.val[1], IF t.val[2] = NoParam THEN typ ELSE t.val[2],
                       TRUE, t.val[3], t.val[4]).st,
                  bind(a.w, scope, t.val[1], IF t.val[2] = NoParam THEN typ ELSE t.val[2],
                       TRUE, t.val[3], t.val[4]).w,
                  a.vals, a.out)

\* for target, targettype in unpack(node.targets, expression.type), from
\* target i on
RECURSIVE TargetsBound(_, _, _, _, _)
TargetsBound(targets, typs, i, scope, a) ==
    IF a.st # "ok" THEN Raising(a.st, a)
    ELSE IF i > Len(targets)
         THEN Lowering("ok", a.w, a.vals,
                       Typed("AssignmentNode", a.out.type, -2, -2, <<a.out>>))
    ELSE TargetsBound(targets, typs, i + 1, scope,
                      TargetBound(a, scope, targetnode(targets[i]), typs[i]))

AssignUnpacked(node, scope, a, u) ==
    IF u.st # "ok" THEN Raising(u.st, a)
    ELSE TargetsBound(Field(node, 1).kids, u.val, 1, scope, a)

\* assignmentnode once the expression is lowered
assignmentnode(node, scope, a) ==
    IF a.st # "ok" THEN a
    ELSE IF Field(node, 1).tag # "list"
         THEN TargetsBound(<<Field(node, 1)>>, <<a.out.type>>, 1, scope, a)
    ELSE AssignUnpacked(node, scope, a, unpack(Field(node, 1).kids, a.out.type))

\* analyse: passnode() for None, else the handler named after the class of
\* the node
analyse(node, w, vals, scope) ==
    CASE node = None -> passnode(w, vals)
      [] node.tag = "IdentifierNode" -> identifiernode(node, w, vals, scope)
      [] node.tag = "StringNode" -> stringnode(node, w, vals)
      [] node.tag = "NumberNode" -> numbernode(node, w, vals)
      [] node.tag = "BooleanNode" -> booleannode(node, w, vals)
      [] node.tag = "NoneNode" -> nonenode(node, w, vals)
      [] node.tag = "ListNode" -> listnode(node, w, vals, scope)
      [] node.tag = "TupleNode" -> tuplenode(node, w, vals, scope)
      [] node.tag = "BlockNode" -> blocknode(node, w, vals, scope)
      [] node.tag = "ReturnNode" ->
            Carrying("ReturnNode", analyse(Field(node, 1), w, vals, scope))
      [] node.tag = "YieldNode" ->
            Carrying("YieldNode", analyse(Field(node, 1), w, vals, scope))
      [] node.tag = "YieldFromNode" ->
            yieldfromnode(analyse(Field(node, 1), w, vals, scope))
      [] node.tag = "PassNode" -> passnode(w, vals)
      [] node.tag = "IfNode" -> ifnode(node, w, vals, scope)
      [] node.tag = "ForNode" ->
            fornode(node, scope, analyse(Field(node, 2), w, vals, scope))
      [] node.tag = "WhileNode" -> whilenode(node, w, vals, child(w, scope))
      [] node.tag = "AssignmentNode" ->
            assignmentnode(node, scope, analyse(Field(node, 3), w, vals, scope))
      [] OTHER -> Lowering("KeyError", w, vals, NoNode)
(***************************************************************************)
(* The parser as a state machine: a caller constructs a Parser on a source *)
(* text, calls one method on it and keeps both the object it called and    *)
(* the object returned.  Chains of calls are the grammar rules themselves. *)
(***************************************************************************)
MaxSourceLen == 6   \* longest source text tried
MaxStack == 2       \* deepest parsed stack a caller starts from

SourceTexts ==
    {"", "a", "c", "ab", "ba", "a b", "(a)", "a )", "1 +", "0", "0x1f", "'s'",
     "none", "true", "break", "not a", "a.b", "[a]", "[0..]", "{a}", "{a:b}",
     "a\nb", "a,b", "\n", "\r\n", "\n \n a", "  //c", "a = 0", "a += 1",
     "do {a}", "iter [a]", "if a", "try a", "for", "if"}

Sources == {s \in SourceTexts : Len(s) <= MaxSourceLen}

\* Parser(source, parsed=...): the stacks a caller starts from
InitialStacks ==
    {SubSeq(<<Str("test"), Str("a"), None, Str("b")>>, 1, n) : n \in 0..MaxStack}

Rules ==
    {"program", "expression", "assignment", "target", "typehint", "type",
     "keyword", "if_", "case", "try_", "for_", "while_", "iter", "do", "object_",
     "enum", "enumitem", "module", "exception", "mutable", "throw", "return_",
     "yield_", "yieldfrom", "break_", "continue_", "pass_", "lambda_", "param",
     "declaration", "boolor", "boolxor", "booland", "inclusion", "identity",
     "comparison", "bitor", "bitxor", "bitand", "shift", "addition", "product",
     "modulus", "exponent", "unary", "primary", "arg", "atom", "mapping", "pair",
     "block", "list", "range", "grouping", "tuple", "literal", "string", "number",
     "boolean", "none", "identifier"}

\* arguments the caller passes to the basic methods
Patterns ==
    {Lit("a"), Lit("b"), Lit("("), Lit("if"), Lit("not"), Re("IDENTIFIER"),
     Re("DECIMAL"), Re("NEWLINE"), Re("EOF"), Re("STRING")}
TokenLists ==
    << <<>>, <<Tok("a")>>, <<Tok("a"), Tok("b")>>, <<Tok("b"), Tok("a")>>,
       <<TokRe("IDENTIFIER", "identifier")>>, <<Tok("a"), Tok("ab")>>,
       <<Tok("ab"), Tok("a")>> >>
NodeClasses == {"List", "PairNode", "NoneNode"}
FromParsed == {-1, 0, 1, 2}

NoCall == [op |-> "new", what |-> "", k |-> -1, parse |-> FALSE, recv |-> 0,
           st |-> "ok", pat |-> "", loc |-> <<0, 0>>, res |-> 1]

ParserInit ==
    /\ source \in Sources
    /\ \E st \in InitialStacks :
           objs = <<[cursor |-> 0, linenum |-> 0, column |-> 0, parsed |-> st]>>
    /\ last = NoCall
    /\ before = objs

\* The caller's objects after a call that left the heap h: the objects it
\* held (as the call left them) and the object returned, if any.
Held(r) == IF Ok(r) THEN Append(SubSeq(r.h, 1, Len(objs)), r.h[r.p])
           ELSE SubSeq(r.h, 1, Len(objs))

Called(op, what, k, parse, recv, r) ==
    /\ objs' = Held(r)
    /\ last' = [op |-> op, what |-> what, k |-> k, parse |-> parse, recv |-> recv,
                st |-> r.st, pat |-> r.pat, loc |-> r.loc,
                res |-> IF Ok(r) THEN Len(objs) + 1 ELSE 0]
    /\ before' = objs
    /\ UNCHANGED <<source, svars, tvars, avars>>

CanCall(recv) == recv \in 1..Len(objs) /\ last.op = "new"

CallWith ==
    \E recv \in 1..Len(objs) :
        /\ CanCall(recv)
        /\ \E c \in {-1} \cup 0..Len(source), e \in BOOLEAN :
              Called("_with", "", c, e, recv,
                     with_(objs, recv,
                           [objs[recv] EXCEPT !.cursor = IF c = -1 THEN @ ELSE c,
                                              !.parsed = IF e THEN <<>> ELSE @]))

CallAddparsed ==
    \E recv \in 1..Len(objs) :
        /\ CanCall(recv)
        /\ \E items \in {<<>>, <<Str("a")>>, <<Str("a"), None>>} :
              Called("addparsed", "", Len(items), FALSE, recv, addparsed(objs, recv, items))

CallWithnode ==
    \E recv \in 1..Len(objs) :
        /\ CanCall(recv)
        /\ \E nodeclass \in NodeClasses, k \in FromParsed :
              Called("withnode", nodeclass, k, FALSE, recv,
                     withnode(objs, recv, nodeclass, <<>>, k))

CallRawMatch ==
    \E recv \in 1..Len(objs) :
        /\ CanCall(recv)
        /\ \E pattern \in Patterns, parse \in BOOLEAN :
              Called("raw_match", pattern.s, -1, parse, recv,
                     raw_match(objs, recv, pattern, pattern.s, parse))

CallSkip ==
    \E recv \in 1..Len(objs) :
        /\ CanCall(recv)
        /\ Called("skip", "", -1, FALSE, recv, skip(objs, recv))

CallMatch ==
    \E recv \in 1..Len(objs) :
        /\ CanCall(recv)
        /\ \E pattern \in Patterns, parse \in BOOLEAN :
              Called("match", pattern.s, -1, parse, recv,
                     match(objs, recv, pattern, "", parse))

CallNewline ==
    \E recv \in 1..Len(objs) :
        /\ CanCall(recv)
        /\ Called("newline", "", -1, FALSE, recv, newline(objs, recv))

CallChoices ==
    \E recv \in 1..Len(objs) :
        /\ CanCall(recv)
        /\ \E i \in 1..Len(TokenLists), parse \in BOOLEAN :
              Called("choices", "", i, parse, recv,
                     choices(objs, recv, TokenLists[i], parse))

CallRule ==
    \E recv \in 1..Len(objs) :
        /\ CanCall(recv)
        /\ \E rule \in Rules :
              Called("rule", rule, -1, FALSE, recv, Apply(rule, objs, recv))

Next ==
    \/ CallWith
    \/ CallAddparsed
    \/ CallWithnode
    \/ CallRawMatch
    \/ CallSkip
    \/ CallMatch
    \/ CallNewline
    \/ CallChoices
    \/ CallRule

(***************************************************************************)
(* The scopes as a state machine: after  s = Scope()  a caller makes up to *)
(* MaxCalls calls of Scope(), child, index and bind on the scopes there    *)
(* are; or it makes one call of typecheck.                                 *)
(***************************************************************************)
MaxCalls == 3      \* calls made on the scopes
MaxScopes == 4     \* Scope objects, builtins included
MaxBindings == 2   \* Binding objects
MaxParams == 2     \* longest params tuple of a type tried

Names == {"x", "y"}
BaseTypes == {Number, List_}
ParamLists == {<<>>} \cup UNION {[1..n -> BaseTypes] : n \in 1..MaxParams}
\* the types handed to typecheck, and those handed to bind
Types ==
    {Subscript(t, ps) : t \in BaseTypes, ps \in ParamLists}
        \cup {Subscript(List_, <<Subscript(List_, <<Number>>)>>)}
BindTypes == {Number, List_, Subscript(List_, <<Number>>)}

NoScopeCall ==
    [op |-> "new", self |-> 0, name |-> "", type |-> NoParam, assignment |-> FALSE,
     local |-> "-", const |-> FALSE, st |-> "ok", val |-> <<>>, n |-> 0]
NoCheck == [expected |-> NoParam, actual |-> NoParam, st |-> ""]
NoLowering == [node |-> None, st |-> "ok", out |-> NoNode, vals |-> <<>>, n |-> 0]

\* the module loaded, and no call made
ScopesInit ==
    /\ scopes = <<Builtins, Scope(1)>>
    /\ bindings = <<>>
    /\ slast = NoScopeCall
    /\ sbefore = World(scopes, bindings)
    /\ tlast = NoCheck
    /\ values = <<>>
    /\ alast = NoLowering

Init == ParserInit /\ ScopesInit

Spec == Init /\ [][Next]_vars

ScopeCalled(op, self, name, typ, assignment_, local, const, r) ==
    /\ slast.n < MaxCalls
    /\ tlast = NoCheck
    /\ Len(r.w.scopes) <= MaxScopes
    /\ Len(r.w.bindings) <= MaxBindings
    /\ scopes' = r.w.scopes
    /\ bindings' = r.w.bindings
    /\ slast' = [op |-> op, self |-> self, name |-> name, type |-> typ,
                 assignment |-> assignment_, local |-> local, const |-> const,
                 st |-> r.st, val |-> r.val, n |-> slast.n + 1]
    /\ sbefore' = World(scopes, bindings)
    /\ UNCHANGED <<pvars, tvars, avars>>

\* Scope()
CallScope ==
    /\ Len(scopes) < MaxScopes
    /\ ScopeCalled("Scope", 0, "", NoParam, FALSE, "-", FALSE,
                   Result("ok", World(Append(scopes, Scope(1)), bindings),
                          <<Len(scopes) + 1>>))

CallChild ==
    \E self \in 1..Len(scopes) :
        ScopeCalled("child", self, "", NoParam, FALSE, "-", FALSE,
                    child(World(scopes, bindings), self))

\* a call that leaves the world as it is
Asked(w, r) == Result(r.st, w, r.val)

CallIndex ==
    \E self \in 1..Len(scopes) :
        \E name \in Names, local \in {"-", "True", "False"} :
            ScopeCalled("index", self, name, NoParam, FALSE, local, FALSE,
                        Asked(World(scopes, bindings),
                              dot_index(World(scopes, bindings), self, name, local)))

CallBind ==
    \E self \in 1..Len(scopes) :
        \E name \in Names, typ \in BindTypes, assignment_ \in BOOLEAN,
           local \in {"True", "False"}, const \in BOOLEAN :
            ScopeCalled("bind", self, name, typ, assignment_, local, const,
                        bind(World(scopes, bindings), self, name, typ, assignment_,
                             local, const))

CallTypecheck ==
    /\ slast.n = 0
    /\ tlast = NoCheck
    /\ \E expected \in Types, actual \in Types :
          tlast' = [expected |-> expected, actual |-> actual,
                    st |-> typecheck(expected, actual)]
    /\ UNCHANGED <<pvars, svars, avars>>

ScopeNext ==
    \/ CallScope
    \/ CallChild
    \/ CallIndex
    \/ CallBind
    \/ CallTypecheck

\* the caller of the scopes holds one Parser on the empty text
ScopeInit ==
    /\ source = ""
    /\ objs = <<[cursor |-> 0, linenum |-> 0, column |-> 0, parsed |-> <<>>]>>
    /\ last = NoCall
    /\ before = objs
    /\ ScopesInit

ScopeSpec == ScopeInit /\ [][ScopeNext]_vars


(***************************************************************************)
(* The parser on texts built to a shape: a caller constructs a Parser on   *)
(* such a text and calls one rule on it, the generic rules with their      *)
(* arguments included.                                                     *)
(***************************************************************************)
MaxItems == 3   \* most items of a list text

\* the text of the i-th item, by the rule that parses it
ItemTexts == [identifier |-> <<"a", "b", "c", "d">>,
              none |-> <<"none", "none", "none", "none">>]
ListItems == DOMAIN ItemTexts

CommaSeps == {",", ",\n"}
NewlineSeps == {"\n", "\n\n"}
BlankLines == {"", "\n"}

SepLists(n, seps) == [1..(n - 1) -> seps]

\* n items joined by commas, each optionally followed by a newline, with
\* or without a trailing comma, or joined by runs of newlines; blank lines
\* before and after
ShapesOf(n) ==
    {sh \in [item : ListItems,
             seps : SepLists(n, CommaSeps) \cup SepLists(n, NewlineSeps),
             comma : BOOLEAN, lead : BlankLines, trail : BlankLines] :
        sh.comma => sh.seps \in SepLists(n, CommaSeps)}

ListShapes == UNION {ShapesOf(n) : n \in 1..MaxItems}

RECURSIVE JoinFrom(_, _, _)
JoinFrom(texts, seps, i) ==
    IF i > Len(seps) + 1 THEN ""
    ELSE (IF i > 1 THEN seps[i - 1] ELSE "") \o texts[i] \o JoinFrom(texts, seps, i + 1)

ListText(sh) ==
    sh.lead \o JoinFrom(ItemTexts[sh.item], sh.seps, 1)
            \o (IF sh.comma THEN "," ELSE "") \o sh.trail

ListTexts == {ListText(sh) : sh \in ListShapes}

\* Parser(text, parsed=...) on one of the texts given, on an empty stack
\* or on one that holds a value already
TextStacks == {<<>>, <<Str("test")>>}

Constructed(texts) ==
    /\ source \in texts
    /\ \E st \in TextStacks :
           objs = <<[cursor |-> 0, linenum |-> 0, column |-> 0, parsed |-> st]>>
    /\ last = NoCall
    /\ before = objs
    /\ ScopesInit

ListInit == Constructed(ListTexts)

CallOfNodelist ==
    \E recv \in 1..Len(objs) :
        /\ CanCall(recv)
        /\ \E item \in ListItems :
              Called("nodelist", item, -1, FALSE, recv,
                     ApplyWith("nodelist", item, <<>>, FALSE, objs, recv))

CallOfDelimitedlist ==
    \E recv \in 1..Len(objs) :
        /\ CanCall(recv)
        /\ \E item \in ListItems, forcelist \in BOOLEAN :
              Called("delimitedlist", item, -1, forcelist, recv,
                     ApplyWith("delimitedlist", item, <<>>, forcelist, objs, recv))

ListNext ==
    \/ CallOfNodelist
    \/ CallOfDelimitedlist

ListSpec == ListInit /\ [][ListNext]_vars

\* separators, a comma or a newline each, of n items that mix the two
MixedSepsOf(n) ==
    {ss \in SepLists(n, {",", "\n"}) :
        /\ \E i \in 1..(n - 1) : ss[i] = ","
        /\ \E i \in 1..(n - 1) : ss[i] = "\n"}

MixedSeps == UNION {MixedSepsOf(n) : n \in 3..MaxItems}

\* the brackets of the bracketed sequences and the texts of their items
Brackets == [list |-> <<"[", "]">>, tuple |-> <<"(", ")">>,
             block |-> <<"{", "}">>, mapping |-> <<"{", "}">>]
PairTexts == <<"a:a", "b:b", "c:c", "d:d">>
BracketItems(rule) == IF rule = "mapping" THEN PairTexts ELSE ItemTexts.identifier

Bracketed(rule, seps) ==
    Brackets[rule][1] \o JoinFrom(BracketItems(rule), seps, 1) \o Brackets[rule][2]

MixedTexts ==
    {JoinFrom(ItemTexts.identifier, ss, 1) : ss \in MixedSeps}
        \cup {Bracketed(rule, ss) : rule \in DOMAIN Brackets, ss \in MixedSeps}

\* bracketed sequences without items, parenthesised atoms, and braces
EmptyTexts == {"[]", "do {}", "mutable {}", "case a in {}"}
ParenTexts == {"(a)", "(a,)", "(a,b)", "()"}
BraceTexts == {"{a:b}", "{a}", "{a:b,c}"}

BracketTexts == MixedTexts \cup EmptyTexts \cup ParenTexts \cup BraceTexts

\* the rules a caller applies to a bracketed text
BracketRules == {"atom", "list", "tuple", "block", "mapping", "grouping",
                 "do", "mutable", "case", "expression"}

BracketInit == Constructed(BracketTexts)

CallBracketRule ==
    \E recv \in 1..Len(objs) :
        /\ CanCall(recv)
        /\ \E rule \in BracketRules :
              Called("rule", rule, -1, FALSE, recv, Apply(rule, objs, recv))

BracketNext ==
    \/ CallBracketRule
    \/ CallOfNodelist

BracketSpec == BracketInit /\ [][BracketNext]_vars

(***************************************************************************)
(* Chains of binary operators.  The rungs of the ladder, from the one that *)
(* binds least, each with the operators its rule passes on; the first      *)
(* seven recurse to the right, as does exponent, the others to the left.   *)
(***************************************************************************)
MaxOps == 2   \* most operators of a chain

Ladder == <<"boolor", "boolxor", "booland", "inclusion", "identity", "comparison",
            "bitor", "bitxor", "bitand", "shift", "addition", "product", "modulus",
            "exponent">>

Operators ==
    [boolor |-> {"or"}, boolxor |-> {"xor"}, booland |-> {"and"},
     inclusion |-> {"in", "not in"}, identity |-> {"is", "is not"},
     comparison |-> {"<", "<=", ">", ">=", "==", "!="},
     bitor |-> {"|"}, bitxor |-> {"^"}, bitand |-> {"&"}, shift |-> {"<<", ">>"},
     addition |-> {"+", "-"}, product |-> {"*", "/"}, modulus |-> {"%"},
     exponent |-> {"**"}]

LeftRungs == {"bitor", "bitxor", "bitand", "shift", "addition", "product", "modulus"}
RightRungs == {"boolor", "boolxor", "booland", "inclusion", "identity", "comparison",
               "exponent"}

Operands == <<"a", "b", "c", "d">>

Spaced(ops) == [i \in 1..Len(ops) |-> " " \o ops[i] \o " "]

\* x0 op1 x1 ... opn xn
ChainText(ops) == JoinFrom(Operands, Spaced(ops), 1)

Repeated(op, n) == [i \in 1..n |-> op]

\* chains of operators of one left rung, chains of one operator of a right
\* rung, and chains of two operators of adjacent rungs in both orders
LeftChains == UNION {[1..n -> Operators[rung]] : rung \in LeftRungs, n \in 1..MaxOps}
RightChains == {Repeated(op, n) : op \in UNION {Operators[rung] : rung \in RightRungs},
                                  n \in 1..MaxOps}
AdjacentChainsAt(i) ==
    UNION {{<<p, q>>, <<q, p>>} : p \in Operators[Ladder[i]], q \in Operators[Ladder[i + 1]]}
AdjacentChains == UNION {AdjacentChainsAt(i) : i \in 1..(Len(Ladder) - 1)}

OperatorTexts == {ChainText(ops) : ops \in LeftChains \cup RightChains \cup AdjacentChains}

OperatorRules == {Ladder[i] : i \in 1..Len(Ladder)} \cup {"expression"}

OperatorInit == Constructed(OperatorTexts)

CallOperatorRule ==
    \E recv \in 1..Len(objs) :
        /\ CanCall(recv)
        /\ \E rule \in OperatorRules :
              Called("rule", rule, -1, FALSE, recv, Apply(rule, objs, recv))

OperatorNext ==
    \/ CallOperatorRule

OperatorSpec == OperatorInit /\ [][OperatorNext]_vars


(***************************************************************************)
(* Assignments.  Plain ones, with one target, a mode, a parenthesised     *)
(* target list or a chain, and t op= v for each augmented operator.        *)
(***************************************************************************)
Values == {"0", "b"}

PlainTexts == {"a = 0", "a=0", "a = b", "a = b = 0", "const a = 0", "nonlocal a = b",
               "(a,b) = 0", "(a, b) = b"}

AugmentedText(op, v) == "a " \o op \o " " \o v

AugmentedTexts ==
    {AugmentedText(AUGMENTED_ASSIGNMENT[i], v) :
        i \in DOMAIN AUGMENTED_ASSIGNMENT, v \in Values}

AssignmentTexts == PlainTexts \cup AugmentedTexts

AssignmentRules == {"assignment", "expression", "program", "target"}

AssignmentInit == Constructed(AssignmentTexts)

CallAssignmentRule ==
    \E recv \in 1..Len(objs) :
        /\ CanCall(recv)
        /\ \E rule \in AssignmentRules :
              Called("rule", rule, -1, FALSE, recv, Apply(rule, objs, recv))

AssignmentNext ==
    \/ CallAssignmentRule

AssignmentSpec == AssignmentInit /\ [][AssignmentNext]_vars

(***************************************************************************)
(* Line breaks.  A text that begins with one to MaxBreaks line breaks,     *)
(* each followed by what a blank line may hold, and texts that do not      *)
(* begin with a line break.                                                *)
(***************************************************************************)
MaxBreaks == 2

Breaks == {"\n", "\r", "\r\n"}
Fillers == {"", " ", "//c", " //c"}
Tails == {"", "a"}

RECURSIVE BrokenLines(_)
BrokenLines(n) ==
    IF n = 0 THEN {""}
    ELSE {b \o f \o rest : b \in Breaks, f \in Fillers, rest \in BrokenLines(n - 1)}

NewlineTexts ==
    {ls \o t : ls \in UNION {BrokenLines(n) : n \in 1..MaxBreaks}, t \in Tails}
        \cup {"", "a", "a\n", " \n", "//c\n"}

NewlineInit == Constructed(NewlineTexts)

NewlineNext ==
    \/ CallNewline

NewlineSpec == NewlineInit /\ [][NewlineNext]_vars

(***************************************************************************)
(* Words.  The words the language reserves, and names that are not         *)
(* reserved: plain ones, and ones that begin with a keyword or a word      *)
(* operator.                                                               *)
(***************************************************************************)
ReservedWords ==
    {"and", "as", "break", "case", "catch", "const", "continue", "do", "else",
     "enum", "exception", "false", "finally", "flags", "for", "from", "if", "in",
     "is", "iter", "module", "mutable", "none", "nonlocal", "not", "object",
     "or", "pass", "return", "self", "then", "throw", "true", "try", "while",
     "xor", "yield"}

PlainWords == {"a", "x!", "_test2?", "flagsfor", "A1"}

PrefixedWords ==
    {"notx", "iffy", "index", "isa", "orb", "andy", "xorx", "asx", "thena",
     "elsex", "forx", "truex", "nonex", "returnx", "breakx", "dox"}

WordTexts == ReservedWords \cup PlainWords \cup PrefixedWords

WordRules == {"identifier", "unary", "expression"}

WordInit == Constructed(WordTexts)

CallWordRule ==
    \E recv \in 1..Len(objs) :
        /\ CanCall(recv)
        /\ \E rule \in WordRules :
              Called("rule", rule, -1, FALSE, recv, Apply(rule, objs, recv))

WordNext ==
    \/ CallWordRule

WordSpec == WordInit /\ [][WordNext]_vars
(***************************************************************************)
(* Properties of the parser.  A choice point is a call of choices or of a  *)
(* rule that is a loop over alternative rules; its alternatives are the    *)
(* tokens, or the rules the loop names.                                    *)
(***************************************************************************)
ChoiceRules == {"expression", "keyword", "atom", "literal"}

AtChoice ==
    \/ last.op = "choices"
    \/ last.op = "rule" /\ last.what \in ChoiceRules

NumAlternatives ==
    IF last.op = "choices" THEN Len(TokenLists[last.k])
    ELSE Len(Grammar[last.what][1].items)

\* alternative j of the last call, applied alone to the object the call
\* was made on, in the state the call started from
Alone(j) ==
    IF last.op = "choices"
    THEN match(before, last.recv, TokenLists[last.k][j].pat,
               TokenLists[last.k][j].text, last.parse)
    ELSE Apply(Grammar[last.what][1].items[j], before, last.recv)

\* the Parser a successful call returned
ResultOf(r) == r.h[r.p]

\* The first alternative from j on that succeeds alone, every alternative
\* before it having failed alone with ParseFailed; 0 when there is none.
RECURSIVE FirstAfterFailures(_)
AfterFailure(j, r) ==
    IF Ok(r) THEN j ELSE IF Failed(r) THEN FirstAfterFailures(j + 1) ELSE 0

FirstAfterFailures(j) ==
    IF j > NumAlternatives THEN 0 ELSE AfterFailure(j, Alone(j))

ReturnsWhatAloneGives(j) ==
    j > 0 => last.st = "ok" /\ objs[last.res] = ResultOf(Alone(j))

\* C1: at a choice point, when the alternatives before B fail with
\* ParseFailed and B succeeds, the call returns a state whose cursor,
\* linenum, column and parsed are exactly those B alone gives from the
\* starting state: nothing the failed alternatives consumed or pushed shows.
BacktrackingPurity == AtChoice => ReturnsWhatAloneGives(FirstAfterFailures(1))

\* a rule-level choice that succeeded by a later alternative after its
\* first alternative had consumed input and then failed
PurityWitness ==
    /\ last.op = "rule" /\ last.what \in ChoiceRules
    /\ last.st = "ok"
    /\ FirstAfterFailures(1) > 1
    /\ Failed(Alone(1))
    /\ Alone(1).loc # <<before[last.recv].linenum + 1, before[last.recv].column + 1>>
    /\ objs[last.res].parsed # before[last.recv].parsed

\* C2: every Parser operation leaves the object it was called on as it
\* was: cursor, linenum, column and parsed of the receiver are unchanged
\* by the call, withnode with fromparsed=k included.
ParserImmutable == last.op # "new" => objs[last.recv] = before[last.recv]

\* the first alternative from j on that succeeds alone; 0 when none does
RECURSIVE FirstSuccess(_)
FirstSuccess(j) ==
    IF j > NumAlternatives THEN 0
    ELSE IF Ok(Alone(j)) THEN j
    ELSE FirstSuccess(j + 1)

ChoiceGives(j) ==
    IF j > 0 THEN last.st = "ok" /\ objs[last.res] = ResultOf(Alone(j))
    ELSE IF NumAlternatives = 0 THEN last.st = "ValueError"
    ELSE /\ last.st = "ParseFailed"
         /\ last.pat = Alone(NumAlternatives).pat
         /\ last.loc = Alone(NumAlternatives).loc

\* C3: a choice point returns the result of the first alternative, in the
\* order given, that succeeds from the starting state; when none succeeds
\* it raises the ParseFailed of the last alternative; choices with no
\* alternative raises ValueError.
OrderedChoice == AtChoice => ChoiceGives(FirstSuccess(1))

\* C4: program() ends by returning or by reporting InvalidSyntax; it never
\* ends with ParseFailed reaching its caller.
ParseFailedContained ==
    (last.op = "rule" /\ last.what = "program") => last.st \in {"ok", "InvalidSyntax"}

(***************************************************************************)
(* Properties of the scopes and types.  What a lookup is to find is stated *)
(* on the scope chain itself: a scope binds a name when it holds a Binding *)
(* of that name, and a scope made by child() without arguments holds none. *)
(***************************************************************************)
Now == World(scopes, bindings)

Slots(w, s, name) ==
    {i \in 1..Len(w.scopes[s].bindings) :
        /\ w.scopes[s].bindings[i].kind = "Binding"
        /\ w.bindings[w.scopes[s].bindings[i].items[1]].name = name}

\* the slot of name in scope s, -1 when s does not bind it
SlotOf(w, s, name) ==
    IF Slots(w, s, name) = {} THEN -1
    ELSE (CHOOSE i \in Slots(w, s, name) : \A k \in Slots(w, s, name) : i <= k) - 1

\* (slot, depth) of the innermost scope binding name from scope s on, s
\* being d parent links up; <<>> when no scope of the chain binds it
RECURSIVE Resolve(_, _, _, _)
Resolve(w, s, name, d) ==
    IF s = 0 THEN <<>>
    ELSE IF SlotOf(w, s, name) # -1
         THEN <<SlotOf(w, s, name), IF w.scopes[s].class = "_Builtins" THEN -1 ELSE d>>
    ELSE Resolve(w, w.scopes[s].parent, name, d + 1)

Resolved(e) ==
    IF e = <<>> THEN slast.st = "NameNotFound"
    ELSE slast.st = "ok" /\ slast.val = e

\* C5: index(name) returns (slot, depth) of the innermost scope of the
\* chain that binds name, depth -1 for the builtins root, and raises
\* NameNotFound when no scope of the chain binds it.
IndexResolves ==
    (slast.op = "index" /\ slast.local = "-")
        => Resolved(Resolve(sbefore, slast.self, slast.name, 0))

\* the scope self was made by child()
IsChild(w, self) ==
    /\ self > 1
    /\ Len(w.scopes[self].bindings) > 0
    /\ w.scopes[self].bindings[1].kind = "tuple"

ParentKept(parent, name) ==
    /\ index(Now, parent, name, "None") = Found("ok", <<SlotOf(sbefore, parent, name), 0>>)
    /\ scopes[parent].bindings = sbefore.scopes[parent].bindings
    /\ bindings[scopes[parent].bindings[SlotOf(sbefore, parent, name) + 1].items[1]]
          = sbefore.bindings[scopes[parent].bindings[SlotOf(sbefore, parent, name) + 1].items[1]]

FoundAtDepth0(r) == r.st = "ok" /\ r.val[2] = 0

\* C6: after child = parent.child() and child.bind(n, ...) with local=True,
\* where parent binds n: parent.index(n) is still (slot, 0), the parent's
\* binding and binding list are unchanged, and child.index(n) has depth 0.
ShadowingKeepsParent ==
    (/\ slast.op = "bind" /\ slast.local = "True"
     /\ IsChild(sbefore, slast.self)
     /\ SlotOf(sbefore, sbefore.scopes[slast.self].parent, slast.name) # -1)
        => /\ ParentKept(sbefore.scopes[slast.self].parent, slast.name)
           /\ FoundAtDepth0(index(Now, slast.self, slast.name, "None"))

\* the element a successful bind returned the place of
BoundElement == get(Now, slast.self, slast.val[1], slast.val[2]).val[1]

\* the last call assigned a const binding: a successful bind with
\* assignment=True that created or rebound a Binding that is const
AssignedConst ==
    /\ slast.op = "bind" /\ slast.st = "ok" /\ slast.assignment
    /\ bindings[BoundElement.items[1]].const

\* C7: once a const binding has been assigned, a later bind of that name
\* with assignment=True raises CannotRebindConstant (stated for the bind
\* that follows the assignment, with the same scope, name and type).
ConstAssignedOnce ==
    [][(/\ AssignedConst
        /\ slast'.op = "bind" /\ slast'.n = slast.n + 1
        /\ slast'.self = slast.self /\ slast'.name = slast.name
        /\ slast'.local = slast.local /\ slast'.type = slast.type
        /\ slast'.assignment)
           => slast'.st = "CannotRebindConstant"]_vars

\* two types are structurally compatible: same name, same number of
\* parameters, parameters pairwise compatible
RECURSIVE Compatible(_, _)
Compatible(expected, actual) ==
    /\ expected.name = actual.name
    /\ Len(expected.params) = Len(actual.params)
    /\ \A i \in 1..Len(expected.params) :
          Compatible(expected.params[i], actual.params[i])

\* the type of the Binding that bind found for the name, NoParam when the
\* lookup did not end with a Binding
TypeFound(r) ==
    IF r.st = "ok" THEN sbefore.bindings[r.val[1].items[1]].type ELSE NoParam

PlaceFound(r) ==
    IF r.st = "ok" THEN get(sbefore, slast.self, r.val[1], r.val[2])
    ELSE Found("none", <<>>)

Mismatched(t) ==
    (t # NoParam /\ ~Compatible(t, slast.type))
        => slast.st = "TypeMismatch" /\ Now = sbefore

\* C8: bind of a name that has a binding of type T, with a type not
\* structurally compatible with T, raises TypeMismatch and leaves every
\* binding and every scope's binding list unchanged.
RebindTypeEnforced ==
    slast.op = "bind"
        => Mismatched(TypeFound(PlaceFound(
               dot_index(sbefore, slast.self, slast.name, slast.local))))

NonlocalGives(e) ==
    /\ slast.op = "index" => Resolved(e)
    /\ slast.op = "bind" =>
          /\ e = <<>> => slast.st = "NameNotFound" /\ Now = sbefore
          /\ slast.st = "ok" => slast.val = e
    /\ slast.st = "ok" => slast.val[2] # 0

\* C9: on a Scope, index(name, local=False) and bind(name, T, local=False)
\* skip the scope itself: they give (slot, depth) of the nearest enclosing
\* binding, never depth 0, and raise NameNotFound, creating no binding,
\* when no enclosing scope binds name.
NonlocalSkipsInnermost ==
    (/\ slast.op \in {"index", "bind"} /\ slast.local = "False"
     /\ sbefore.scopes[slast.self].class = "Scope")
        => NonlocalGives(Resolve(sbefore, sbefore.scopes[slast.self].parent,
                                 slast.name, 1))

\* C10: typecheck accepts exactly the structurally compatible pairs and
\* rejects every other pair by raising TypeMismatch.
StructuralTypecheck ==
    tlast # NoCheck
        => tlast.st = (IF Compatible(tlast.expected, tlast.actual) THEN "ok"
                       ELSE "TypeMismatch")

(***************************************************************************)
(* Properties of the rules on texts of a given shape.                      *)
(***************************************************************************)
\* the call returned at the end of the text, with exactly the nodes given
\* pushed on the stack it started from
Pushed(nodes) ==
    /\ last.st = "ok"
    /\ objs[last.res].cursor = Len(source)
    /\ objs[last.res].parsed = before[last.recv].parsed \o nodes

\* the node the item rule gives for the i-th item text
ItemNode(item, i) ==
    IF item = "none" THEN Construct("NoneNode", <<>>)
    ELSE Construct("IdentifierNode", <<Str(ItemTexts[item][i])>>)

ItemNodes(item, n) == [i \in 1..n |-> ItemNode(item, i)]

\* C11: nodelist(item) on N >= 1 items joined by commas (each optionally
\* followed by a newline, with or without a trailing comma) or by runs of
\* newlines, with optional blank lines around, succeeds, consumes the whole
\* text and replaces the N item results by one list of those N items in
\* source order.
ListCountLaw ==
    \A sh \in ListShapes :
        (source = ListText(sh) /\ last.op = "nodelist" /\ last.what = sh.item)
            => Pushed(<<List(ItemNodes(sh.item, Len(sh.seps) + 1))>>)

\* three identifiers, joined by a comma and a comma with a newline, with a
\* trailing comma, were made one list
ListCountWitness ==
    /\ source = "a,b,\nc,"
    /\ last.op = "nodelist" /\ last.what = "identifier"
    /\ Pushed(<<List(ItemNodes("identifier", 3))>>)

\* the number of items up to the first separator of another kind than
\* the first
RECURSIVE SameKindRun(_, _)
SameKindRun(ss, i) ==
    IF i > Len(ss) THEN i
    ELSE IF (ss[i] \in CommaSeps) = (ss[1] \in CommaSeps) THEN SameKindRun(ss, i + 1)
    ELSE i

\* nodelist returned the list of the first n items and stopped there
StoppedAfter(n) ==
    /\ last.st = "ok"
    /\ objs[last.res].cursor < Len(source)
    /\ objs[last.res].parsed
          = before[last.recv].parsed \o <<List(ItemNodes("identifier", n))>>

\* C12: the separator of a list is fixed once chosen: on items that mix
\* commas and bare newlines nodelist takes only the items up to the first
\* separator of the other kind, and list, tuple, block and mapping (and
\* atom) reject the bracketed sequence with ParseFailed.
SeparatorFixed ==
    \A ss \in MixedSeps :
        /\ (/\ source = JoinFrom(ItemTexts.identifier, ss, 1)
            /\ last.op = "nodelist" /\ last.what = "identifier")
               => StoppedAfter(SameKindRun(ss, 1))
        /\ \A rule \in DOMAIN Brackets :
              (/\ source = Bracketed(rule, ss)
               /\ last.op = "rule" /\ last.what \in {rule, "atom"})
                  => last.st = "ParseFailed"

\* [a NEWLINE b, c] was rejected by list
SeparatorFixedWitness ==
    /\ source = "[a\nb,c]"
    /\ last.op = "rule" /\ last.what = "list"
    /\ last.st = "ParseFailed"

\* the last call was rule on text
RuleOn(rule, text) == source = text /\ last.op = "rule" /\ last.what = rule

Identifier(name) == Construct("IdentifierNode", <<Str(name)>>)
NoItems(nodeclass) == Construct(nodeclass, <<List(<<>>)>>)

\* C13: a bracketed sequence whose closing bracket follows the opening one
\* parses to a node with no items: [] gives ListNode([]), do {} gives
\* DoNode(BlockNode([])), mutable {} gives MutableNode(MappingNode([])) and
\* case a in {} gives a CaseNode with MappingNode([]).
EmptySequences ==
    /\ RuleOn("list", "[]") => Pushed(<<NoItems("ListNode")>>)
    /\ RuleOn("do", "do {}")
          => Pushed(<<Construct("DoNode", <<NoItems("BlockNode")>>)>>)
    /\ RuleOn("mutable", "mutable {}")
          => Pushed(<<Construct("MutableNode", <<NoItems("MappingNode")>>)>>)
    /\ RuleOn("case", "case a in {}")
          => Pushed(<<Construct("CaseNode",
                                <<Identifier("a"), NoItems("MappingNode"), None>>)>>)

ItemsNode(nodeclass, items) == Construct(nodeclass, <<List(items)>>)

\* C14: a parenthesised atom is, for (x), the bare expression x; for (x,)
\* a TupleNode of 1 item; for (x, y) a TupleNode of 2 items; and for () a
\* TupleNode of 0 items.
GroupingOrTuple ==
    /\ RuleOn("atom", "(a)") => Pushed(<<Identifier("a")>>)
    /\ RuleOn("atom", "(a,)") => Pushed(<<ItemsNode("TupleNode", <<Identifier("a")>>)>>)
    /\ RuleOn("atom", "(a,b)")
          => Pushed(<<ItemsNode("TupleNode", <<Identifier("a"), Identifier("b")>>)>>)
    /\ RuleOn("atom", "()") => Pushed(<<NoItems("TupleNode")>>)

\* C15: after { the atom is a mapping exactly when its first item is
\* followed by ':' : {a:b} gives a MappingNode of one PairNode, {a} a
\* BlockNode of one expression, and {a:b,c}, which mixes the two, is
\* reported as InvalidSyntax.
MappingOrBlock ==
    /\ RuleOn("atom", "{a:b}")
          => Pushed(<<ItemsNode("MappingNode",
                         <<Construct("PairNode", <<Identifier("a"), Identifier("b")>>)>>)>>)
    /\ RuleOn("atom", "{a}") => Pushed(<<ItemsNode("BlockNode", <<Identifier("a")>>)>>)
    /\ RuleOn("atom", "{a:b,c}") => last.st = "InvalidSyntax"

BinaryOp(left, op, right) == Construct("BinaryOpNode", <<left, Str(op), right>>)
Operand(i) == Identifier(Operands[i])

RECURSIVE LeftNested(_, _)
LeftNested(ops, n) ==
    IF n = 0 THEN Operand(1)
    ELSE BinaryOp(LeftNested(ops, n - 1), ops[n], Operand(n + 1))

RECURSIVE RightNested(_, _)
RightNested(ops, i) ==
    IF i > Len(ops) THEN Operand(i)
    ELSE BinaryOp(Operand(i), ops[i], RightNested(ops, i + 1))

\* C16: each of bitor, bitxor, bitand, shift, addition, product and
\* modulus, on a chain x0 op1 x1 ... opn xn of operators of its rung,
\* consumes the whole chain and gives the tree nested to the left, each
\* node with its own operator.
LeftAssociative ==
    \A rung \in LeftRungs : \A n \in 1..MaxOps : \A ops \in [1..n -> Operators[rung]] :
        RuleOn(rung, ChainText(ops)) => Pushed(<<LeftNested(ops, n)>>)

\* C17: each of boolor, boolxor, booland, inclusion, identity, comparison
\* and exponent, on x op y op z with an operator op of its rung, consumes
\* the whole chain and gives BinaryOp(x, op, BinaryOp(y, op, z)) with the
\* complete operator text.
RightAssociative ==
    \A rung \in RightRungs : \A op \in Operators[rung] :
        RuleOn(rung, ChainText(<<op, op>>)) => Pushed(<<RightNested(<<op, op>>, 1)>>)

\* C18: an operator q of the rung after that of p binds tighter than p:
\* the rule of p's rung gives BinaryOp(BinaryOp(a,q,b),p,c) on a q b p c
\* and BinaryOp(a,p,BinaryOp(b,q,c)) on a p b q c.
Precedence ==
    \A i \in 1..(Len(Ladder) - 1) :
        \A p \in Operators[Ladder[i]], q \in Operators[Ladder[i + 1]] :
            /\ RuleOn(Ladder[i], ChainText(<<q, p>>))
                  => Pushed(<<LeftNested(<<q, p>>, 2)>>)
            /\ RuleOn(Ladder[i], ChainText(<<p, q>>))
                  => Pushed(<<RightNested(<<p, q>>, 1)>>)


NumberOf(digits) == Construct("NumberNode", <<Str(digits)>>)
Target(mode, hint, name) == Construct("TargetNode", <<Str(mode), hint, Identifier(name)>>)
Assignment(targets, op, value) == Construct("AssignmentNode", <<targets, Str(op), value>>)
ValueTree(v) == IF v = "0" THEN NumberOf("0") ELSE Identifier(v)

\* C19: assignment on t = e consumes the whole text and pushes exactly one
\* AssignmentNode(targets, '=', value): a single target is a TargetNode with
\* mode '' and typehint None when they are absent, a parenthesised target
\* list is a list of TargetNodes, and a = b = 0 nests to the right.
PlainAssignment ==
    /\ RuleOn("assignment", "a = 0")
          => Pushed(<<Assignment(Target("", None, "a"), "=", NumberOf("0"))>>)
    /\ RuleOn("assignment", "a=0")
          => Pushed(<<Assignment(Target("", None, "a"), "=", NumberOf("0"))>>)
    /\ RuleOn("assignment", "a = b")
          => Pushed(<<Assignment(Target("", None, "a"), "=", Identifier("b"))>>)
    /\ RuleOn("assignment", "const a = 0")
          => Pushed(<<Assignment(Target("const", None, "a"), "=", NumberOf("0"))>>)
    /\ RuleOn("assignment", "nonlocal a = b")
          => Pushed(<<Assignment(Target("nonlocal", None, "a"), "=", Identifier("b"))>>)
    /\ RuleOn("assignment", "(a,b) = 0")
          => Pushed(<<Assignment(List(<<Target("", None, "a"), Target("", None, "b")>>),
                                 "=", NumberOf("0"))>>)
    /\ RuleOn("assignment", "(a, b) = b")
          => Pushed(<<Assignment(List(<<Target("", None, "a"), Target("", None, "b")>>),
                                 "=", Identifier("b"))>>)
    /\ RuleOn("assignment", "a = b = 0")
          => Pushed(<<Assignment(Target("", None, "a"), "=",
                                 Assignment(Target("", None, "b"), "=", NumberOf("0")))>>)

\* the operator of an augmented assignment without its trailing =
Bare(op) == SubSeq(op, 1, Len(op) - 1)

\* C20: for every augmented operator op=, assignment on a op= v gives the
\* tree of a = a op v: an assignment to the target a whose value is
\* BinaryOp(IdentifierNode('a'), op, v).
AugmentedDesugars ==
    \A i \in DOMAIN AUGMENTED_ASSIGNMENT : \A v \in Values :
        RuleOn("assignment", AugmentedText(AUGMENTED_ASSIGNMENT[i], v))
            => Pushed(<<Assignment(Target("", None, "a"), "=",
                                   BinaryOp(Identifier("a"), Bare(AUGMENTED_ASSIGNMENT[i]),
                                            ValueTree(v)))>>)

\* the length of the line break at position i: 2 for \r\n, 1 for \n and for
\* \r, 0 when there is none
BreakAt(i) ==
    IF Ch(i) = "\r" THEN (IF Ch(i + 1) = "\n" THEN 2 ELSE 1)
    ELSE IF Ch(i) = "\n" THEN 1
    ELSE 0

\* the end of the line that position i is on
RECURSIVE EndOfLine(_)
EndOfLine(i) == IF Ch(i) = "" \/ BreakAt(i) > 0 THEN i ELSE EndOfLine(i + 1)

\* the end of the whitespace and the comment that begin at position i
BlankEnd(i) ==
    IF Ch(WhitespaceEnd(i)) = "/" /\ Ch(WhitespaceEnd(i) + 1) = "/"
    THEN EndOfLine(WhitespaceEnd(i))
    ELSE WhitespaceEnd(i)

\* the run of line breaks and blank lines from position i on, n breaks
\* having been counted: where it ends, the breaks in it, and the characters
\* after its last break
RECURSIVE BreakRun(_, _)
BreakRun(i, n) ==
    IF BreakAt(BlankEnd(i)) > 0
    THEN BreakRun(BlankEnd(i) + BreakAt(BlankEnd(i)), n + 1)
    ELSE [cursor |-> BlankEnd(i), breaks |-> n, column |-> BlankEnd(i) - i]

NewlineCalled == last.op = "newline" /\ before[last.recv].cursor = 0

\* C26: newline() fails with ParseFailed when the cursor is not at a line
\* break; otherwise it consumes the maximal run of line breaks (\n, \r\n and
\* \r each one break) with the whitespace and comments of the blank lines
\* between them, adds the number of breaks to linenum and leaves column at
\* the number of characters consumed after the last break.
NewlineAccounting ==
    NewlineCalled =>
        IF BreakAt(0) = 0 THEN last.st = "ParseFailed"
        ELSE /\ last.st = "ok"
             /\ objs[last.res].cursor = BreakRun(BreakAt(0), 1).cursor
             /\ objs[last.res].linenum =
                    before[last.recv].linenum + BreakRun(BreakAt(0), 1).breaks
             /\ objs[last.res].column = BreakRun(BreakAt(0), 1).column
             /\ objs[last.res].parsed = before[last.recv].parsed

\* C27: identifier() fails with ParseFailed on every reserved word, and on
\* any other text that matches [a-zA-Z_]\w*[!?]? it succeeds and pushes one
\* IdentifierNode holding that text.
ReservedNotIdentifiers ==
    /\ \A w \in ReservedWords :
          RuleOn("identifier", w) => last.st = "ParseFailed"
    /\ \A w \in PlainWords \cup PrefixedWords :
          RuleOn("identifier", w) => Pushed(<<Identifier(w)>>)

\* C28: an expression that is one identifier beginning with a keyword or a
\* word operator parses as a single IdentifierNode with the full name; it is
\* never split into the keyword or operator and a remainder.
WholeWordsOnly ==
    \A w \in PrefixedWords :
        RuleOn("expression", w) => Pushed(<<Identifier(w)>>)

\* C29: every scope's binding list has pairwise distinct names, whatever
\* calls of bind (any name, type, assignment, local and const, on any scope,
\* failing or not) have been made.
NamesUniquePerScope ==
    \A s \in 1..Len(scopes) : \A name \in Names :
        Cardinality(Slots(Now, s, name)) <= 1

\* a bind of a name its scope already bound, on a scope of two bindings
NamesUniqueWitness ==
    /\ slast.op = "bind" /\ slast.st = "ok" /\ slast.local = "True"
    /\ SlotOf(sbefore, slast.self, slast.name) # -1
    /\ Len(scopes[slast.self].bindings) = 2

\* get(slot, depth) on scope s yields a binding of that name
NamedAt(w, s, slot, depth, name) ==
    /\ get(w, s, slot, depth).st = "ok"
    /\ get(w, s, slot, depth).val[1].kind = "Binding"
    /\ w.bindings[get(w, s, slot, depth).val[1].items[1]].name = name

\* C30: the (slot, depth) that index or bind returns for a name yields, by
\* get on the same scope, a binding of that name; every (slot, depth) that
\* does so still does after a further bind on any scope (so it does after
\* any sequence of them); and a binding that bind creates gets the slot
\* equal to the number of bindings its scope held before, with depth 0.
SlotsStable ==
    [][(slast'.n = slast.n + 1 /\ slast'.op \in {"index", "bind"})
        => /\ slast'.st = "ok"
                => NamedAt(World(scopes', bindings'), slast'.self,
                           slast'.val[1], slast'.val[2], slast'.name)
           /\ slast'.op = "bind"
                => \A s \in 1..Len(scopes), slot \in 0..MaxBindings,
                      depth \in -1..MaxScopes, name \in Names :
                       NamedAt(Now, s, slot, depth, name)
                           => NamedAt(World(scopes', bindings'), s, slot, depth, name)
           /\ (slast'.op = "bind" /\ Len(bindings') > Len(bindings))
                => slast'.val = <<Len(scopes[slast'.self].bindings), 0>>]_vars

\* bind created a binding in a scope that already held one
SlotsStableWitness ==
    /\ slast.op = "bind" /\ slast.st = "ok"
    /\ Len(bindings) > Len(sbefore.bindings)
    /\ slast.val = <<1, 0>>

(***************************************************************************)
(* Lowering.  A caller builds the scope s = Scope(...) over builtins, with *)
(* the bindings of an environment, and an empty value table, and calls     *)
(* analyse(tree, s, values) up to MaxLowerings times.                      *)
(***************************************************************************)
MaxLowerings == 2

StringTree(text) == Construct("StringNode", <<Str(text)>>)
NumberTree(text) == Construct("NumberNode", <<Str(text)>>)
BooleanTree(text) == Construct("BooleanNode", <<Str(text)>>)
NoneTree == Construct("NoneNode", <<>>)
ListTree(items) == Construct("ListNode", <<List(items)>>)
BlockTree(exprs) == Construct("BlockNode", <<List(exprs)>>)
ReturnTree(e) == Construct("ReturnNode", <<e>>)
YieldTree(e) == Construct("YieldNode", <<e>>)
YieldFromTree(e) == Construct("YieldFromNode", <<e>>)
IfTree(cond, then, default) == Construct("IfNode", <<cond, then, default>>)
ForTree(vars_, container, body) == Construct("ForNode", <<vars_, container, body>>)
WhileTree(cond, body) == Construct("WhileNode", <<cond, body>>)
TargetTree(name) == Construct("TargetNode", <<Str(""), None, Identifier(name)>>)
AssignTree(targets, e) == Construct("AssignmentNode", <<targets, Str("="), e>>)

X == StringTree("\"x\"")
Y == StringTree("\"y\"")

LiteralTrees ==
    {X, Y, NumberTree("0"), NumberTree("0x1f"), BooleanTree("true"),
     BooleanTree("false"), NoneTree}

ListElements == {X, Y, NumberTree("0"), BooleanTree("true"), Identifier("t")}

ListTrees ==
    {ListTree(<<p>>) : p \in ListElements}
        \cup {ListTree(<<p, q>>) : p \in ListElements, q \in ListElements}
        \cup {ListTree(<<ListTree(<<X>>), ListTree(<<q>>)>>) : q \in {Y, BooleanTree("true")}}

Exits ==
    {ReturnTree(X), ReturnTree(BooleanTree("true")), YieldTree(X),
     YieldFromTree(X), YieldFromTree(ListTree(<<BooleanTree("true")>>))}

Branches ==
    {IfTree(BooleanTree("true"), ReturnTree(X), None),
     IfTree(BooleanTree("true"), YieldTree(BooleanTree("true")), None)}

BlockExpressions == Exits \cup Branches \cup {X}

BlockTrees ==
    {BlockTree(<<>>)}
        \cup {BlockTree(<<p>>) : p \in BlockExpressions}
        \cup {BlockTree(<<p, q>>) : p \in BlockExpressions, q \in BlockExpressions}

Binders == {AssignTree(TargetTree("a"), X), AssignTree(TargetTree("a"), Identifier("t"))}

ScopedTrees ==
    {BlockTree(<<p>>) : p \in Binders}
        \cup {WhileTree(BooleanTree("true"), BlockTree(<<p>>)) : p \in Binders \cup {X}}
        \cup {ForTree(Identifier("a"), c, BlockTree(<<X>>)) : c \in {X, ListTree(<<X>>)}}
        \cup {ForTree(List(<<Identifier("a"), Identifier("b")>>), Identifier("t"),
                      BlockTree(<<>>))}

TargetLists ==
    {List(<<>>), List(<<TargetTree("a")>>), List(<<TargetTree("a"), TargetTree("b")>>),
     List(<<TargetTree("a"), TargetTree("b"), TargetTree("c")>>)}

AssignTrees ==
    Binders \cup {AssignTree(ts, e) : ts \in TargetLists, e \in {Identifier("t"), X}}

Trees == LiteralTrees \cup ListTrees \cup BlockTrees \cup ScopedTrees \cup AssignTrees

\* the bindings the scope is built with: Scope(Binding(name, type, True), ...)
Environments ==
    {<<>>,
     <<Binding("t", Subscript(Tuple, <<String, Boolean>>), TRUE, FALSE)>>,
     <<Binding("t", Subscript(Tuple, <<String>>), TRUE, FALSE)>>,
     <<Binding("t", String, TRUE, FALSE)>>}

ScopeOf(env) ==
    [class |-> "Scope", bindings |-> [i \in 1..Len(env) |-> Ref(i)], parent |-> 1]

AnalyserInit ==
    /\ source = ""
    /\ objs = <<[cursor |-> 0, linenum |-> 0, column |-> 0, parsed |-> <<>>]>>
    /\ last = NoCall
    /\ before = objs
    /\ \E env \in Environments :
          /\ scopes = <<Builtins, ScopeOf(env)>>
          /\ bindings = env
    /\ slast = NoScopeCall
    /\ sbefore = World(scopes, bindings)
    /\ tlast = NoCheck
    /\ values = <<>>
    /\ alast = NoLowering

\* analyse(node, s, values) has ended with r
Analysed(node, r) ==
    /\ alast.n < MaxLowerings
    /\ scopes' = r.w.scopes
    /\ bindings' = r.w.bindings
    /\ values' = r.vals
    /\ alast' = [node |-> node, st |-> r.st, out |-> r.out, vals |-> values,
                 n |-> alast.n + 1]
    /\ sbefore' = World(scopes, bindings)
    /\ UNCHANGED <<pvars, slast, tvars>>

CallAnalyse ==
    \E node \in Trees :
        Analysed(node, analyse(node, World(scopes, bindings), values, 2))

AnalyserNext ==
    \/ CallAnalyse

AnalyserSpec == AnalyserInit /\ [][AnalyserNext]_vars

(***************************************************************************)
(* What the lowering of a tree is claimed to give, read off the tree.      *)
(***************************************************************************)
Lowered(trees) == alast.n > 0 /\ alast.node \in trees

\* the enclosing scope holds the bindings it held before the call
EnclosingKept ==
    /\ scopes[2].bindings = sbefore.scopes[2].bindings
    /\ \A i \in 1..Len(sbefore.bindings) : bindings[i].name = sbefore.bindings[i].name

\* scope s is below the enclosing scope
RECURSIVE Below(_)
Below(s) == s > 2 /\ (scopes[s].parent = 2 \/ Below(scopes[s].parent))

\* the constructs whose lowering binds the name a inside them
BindingTrees ==
    {BlockTree(<<AssignTree(TargetTree("a"), X)>>),
     WhileTree(BooleanTree("true"), BlockTree(<<AssignTree(TargetTree("a"), X)>>)),
     ForTree(Identifier("a"), X, BlockTree(<<X>>)),
     ForTree(Identifier("a"), ListTree(<<X>>), BlockTree(<<X>>))}

RECURSIVE TreeType(_)
TreeType(tree) ==
    CASE tree.tag = "StringNode" -> String
      [] tree.tag = "NumberNode" -> Number
      [] tree.tag = "BooleanNode" -> Boolean
      [] tree.tag = "NoneNode" -> None_
      [] tree.tag = "ListNode" -> Subscript(List_, <<TreeType(Field(tree, 1).kids[1])>>)

RECURSIVE IsLiteral(_)
IsLiteral(tree) ==
    \/ tree.tag \in {"StringNode", "NumberNode", "BooleanNode", "NoneNode"}
    \/ /\ tree.tag = "ListNode"
       /\ \A i \in 1..Len(Field(tree, 1).kids) : IsLiteral(Field(tree, 1).kids[i])

Items(tree) == Field(tree, 1).kids

Quad(a, b, c, d) == Nd("tuple", "", <<Str(a), Str(b), Str(c), Str(d)>>)

\* the normalized value of a literal
Normalized(tree) ==
    CASE tree.tag = "StringNode" ->
            Str(SubSeq(Field(tree, 1).text, 2, Len(Field(tree, 1).text) - 1))
      [] tree.tag = "BooleanNode" -> IF Field(tree, 1).text = "true" THEN True ELSE False
      [] tree.tag = "NoneNode" -> None
      [] tree = NumberTree("0") -> Quad("0", "", "", "")
      [] tree = NumberTree("0x1f") -> Quad("31", "", "", "")

RECURSIVE ExitTypes(_)
ExitTypes(e) ==
    IF e = None THEN {}
    ELSE IF e.tag \in {"ReturnNode", "YieldNode"} THEN {TreeType(Field(e, 1))}
    ELSE IF e.tag = "YieldFromNode"
         THEN {IF TreeType(Field(e, 1)) = String THEN String
               ELSE TreeType(Field(e, 1)).params[1]}
    ELSE IF e.tag = "IfNode" THEN ExitTypes(Field(e, 2)) \cup ExitTypes(Field(e, 3))
    ELSE {}

BlockExits(tree) == UNION {ExitTypes(Items(tree)[i]) : i \in 1..Len(Items(tree))}

TargetName(tree, i) == Field(Field(Field(tree, 1).kids[i], 3), 1).text

\* the type the enclosing scope held for t before the call
TypeOfT == sbefore.bindings[1].type

====
